---- MODULE Spec2Model ----
(***************************************************************************)
(* A model of galaxygame's entity core (src/models): the per-entity        *)
(* notification channel (EventPublisher), the tracked-field interception   *)
(* of BaseModel, and the Character, Ship, Location and DynamicNPC state    *)
(* machines built on them.                                                 *)
(*                                                                         *)
(* One set of variables carries several specifications, one per part of    *)
(* the program; each specification leaves the other parts' variables       *)
(* unchanged:                                                              *)
(*   SpecTrack  raw attribute writes on a Character (BaseModel.__setattr__)*)
(*   SpecChar   the Character operations (move, credits, damage, respawn)  *)
(*   SpecInv    the Character inventory (add_item / remove_item)           *)
(*   SpecChan   delivery of events to subscribed handlers, re-entrantly    *)
(*   SpecHist   the bounded event history of one channel                   *)
(*   SpecShip   the Ship operations (fuel, damage, repair, upgrades)       *)
(*   SpecLocation  the Location operations (services, wealth, population,  *)
(*              derelict flag); SpecDrivers is SpecLocation without        *)
(*              add_service and remove_service                             *)
(*   SpecNpc    travel of a DynamicNPC (start_travel, update_position)     *)
(*   SpecValidate  DynamicNPC.validate under writes of what it reads        *)
(*   SpecProgress  karma, alignment and experience of a Character          *)
(*   SpecCollection  a ModelCollection and the ids of its entities         *)
(*   SpecFuel   consume_fuel in small steps around the warning thresholds  *)
(*   SpecDamage apply_damage with a damage type, and repair                *)
(*   SpecObserved  take_damage with a damage_taken handler that strikes    *)
(*              the character again during the delivery                    *)
(*   SpecShared item records handed to two characters and a cargo bay      *)
(*   SpecAi     execute_ai_behavior on NPCs loaded from saved records      *)
(*   SpecPatrol a patrol NPC whose proposals are always carried out        *)
(*                                                                         *)
(* Timestamps (created_at, updated_at, last_death_time, GameEvent          *)
(* .timestamp) are wall-clock readings that no operation modelled here     *)
(* reads back; they are left out.  _event_history is written by every      *)
(* publish_event and read by get_event_history alone: SpecHist carries it, *)
(* the other specifications record the events of a call in emitted.        *)
(***************************************************************************)
EXTENDS Integers, Sequences, FiniteSets, TLC

(***************************************************************************)
(* Bounds of the model (not program constants).                            *)
(***************************************************************************)
\* add_credits is not called when it would take the balance above this
MaxCredits == 2600
\* lethal damage is not dealt once the character has died this often
MaxDeaths == 2
\* subscribe is not called on a list that holds this many registrations
MaxRegistrations == 2
\* at most this many calls of publish_event are in progress, one inside another
MaxDepth == 1
\* publish_event is not called more than this many times in one run
MaxPublishes == 4
\* a channel that is not new has had this many events published on it
EarlierPublishes == 98
\* apply_damage is not called when it would take the sum of damage_report above this
MaxDegradation == 10
\* update_population is not called when it would take the population above this
MaxPopulation == 1500
\* set_derelict(True) is not called once the description has this many prefixes
MaxAbandoned == 1
\* time does not pass beyond this
MaxClock == 1200
\* no call is made on the collection that would bring its history above this
MaxCollectionEvents == 3
\* update_alignment is not called when it would take karma beyond this, either way
MaxKarma == 100
\* add_experience is not called when it would leave more experience, a higher level
\* or a higher skill than these
MaxExperience == 4000
MaxCharacterLevel == 3
MaxSkillReached == 2
\* the quantity an item record is let grow to
MaxQuantity == 4

(***************************************************************************)
(* Program constants.                                                      *)
(***************************************************************************)
\* Python's None for an Optional[int] location (ids are positive)
NoLocation == 0
DefaultCredits == 1000
DefaultFuel == 50
DefaultHull == 100
MajorTransaction == 1000
RespawnFuel == 25
DefaultMaxInventoryWeight == 100
\* Ship.power_available
DefaultPower == 100
\* hull absorbed per shield level
ShieldFactor == 10
DefaultPopulation == 1000
DefaultHp == 100
DefaultNpcFuel == 100
DefaultNpcHull == 100
MinTravelFuel == 10
SecondsPerFuel == 60
DefaultStat == 10
LoyalKarma == 50
BanditKarma == -50
ExperiencePerLevel == 1000
MaxSkill == 100
\* EventPublisher._max_history_size
MaxHistorySize == 100

(***************************************************************************)
(* Inputs the operations are called with.                                  *)
(***************************************************************************)
Locations == {1, 2}
CreditAmounts == {-1200, 300, 1500}
DamageAmounts == {50, 150}
\* the take_damage calls a damage_taken handler makes, one per invocation
HandlerStrikes == {<<>>, <<10>>, <<10, 60>>}
HealAmounts == {50}
\* records a Character is loaded from (from_dict); a key left out takes its default
SavedRecords == {[ship_hull |-> 75, max_ship_hull |-> 75, location_status |-> "traveling"]}
\* values written to a Character's attributes directly
FieldValues(name) ==
    CASE name = "current_location" -> {NoLocation, 1, 2}
      [] name = "credits" -> {0, 1000, 1500}
      [] name = "is_alive" -> BOOLEAN
      [] name = "karma" -> {-50, 0, 50}
      [] name = "alignment" -> {"loyal", "neutral", "bandit"}
      [] name = "wanted_level" -> {0, 1}
      [] name = "ship_hull" -> {0, 50}
      [] name = "location_status" -> {"docked", "in_combat"}
\* values the caller assigns to credits while handlers are subscribed
ChanCredits == {1000, 1500}
\* items handed to add_item, and quantities handed to remove_item
ItemIds == {"ore", "cell"}
ItemQuantities == {1, 3}
ItemWeights == {20, 45}
RemoveQuantities == {1, 2}
WrittenFields ==
    {"current_location", "credits", "is_alive", "karma", "alignment", "wanted_level",
     "ship_hull", "location_status"}

\* event types published on the channel, and the handler objects that exist
EventTypes == {"credits_changed", "custom"}
\* ShipType values given to the constructor
ShipTypes == {"shuttle", "freighter"}
\* the ShipType of the ship the operations are called on
ShipInUse == {"shuttle"}
\* ShipUpgrade objects: "u1" is the id of an engine and of a shield upgrade
Upgrades ==
    { [upgrade_id |-> "u1", upgrade_type |-> "engine", level |-> 3,
       bonus_value |-> 0, power_requirement |-> 40],
      [upgrade_id |-> "u2", upgrade_type |-> "shield", level |-> 2,
       bonus_value |-> 0, power_requirement |-> 50],
      [upgrade_id |-> "u3", upgrade_type |-> "fuel", level |-> 1,
       bonus_value |-> 40, power_requirement |-> 20],
      [upgrade_id |-> "u1", upgrade_type |-> "shield", level |-> 1,
       bonus_value |-> 0, power_requirement |-> 10] }
UpgradeIds == {"u1", "u2", "u3"}
FuelAmounts == {40, 200}
\* amounts that walk the fuel through the warning thresholds
SmallFuelAmounts == {10, 200}
RefuelAmounts == {40}
ShipDamage == {20, 60}
DamageTypes == {"general", "bypass"}
RepairAmounts == {20}
RepairSystems == {"None", "engine"}
\* what random.choice(list(self.damage_report.keys())) returns
RandomSystems == {"engine", "shields"}
\* what random.uniform(0.05, 0.15) returns, in hundredths
RandomDamage == {10}
\* the least and a middle value of random.uniform(0.05, 0.15), in hundredths
UniformDamage == {5, 10}
\* damage that leaves a shuttle above and below half of its hull
HullDamage == {10, 30}
\* the default damage type and one that names a subsystem
SystemDamageTypes == {"general", "engine"}

LocationTypes == {"colony", "space_station", "outpost", "gate", "derelict", "hidden"}
WealthLevels == 1..10
AddedServices == {"comms", "black_market"}
RemovedServices == {"jobs"}
WealthChanges == {-1, 1}
PopulationChanges == {-1500, 500}

NpcDamage == {100}
DestinationIds == {0, 5}
Behaviors == {"trader", "patrol", "pirate", "explorer"}
SavedFuel == {19, 29, 39, 49, 50}
SavedHull == {49, 69, 70}
SavedLocations == {<<>>, <<1>>}
PatrolRoute == <<1, 2, 3>>
CandidateLists == {<<>>, <<1>>, PatrolRoute}
RandomDraws == [choice : {0, 1}, minutes : {0, 1}]
TravelTimes == {0, 330, 5100}
PollTimes == {0, 600, 6300}
TickSeconds == 600
\* values written to the attributes of a DynamicNPC that validate reads
NpcFieldValues ==
    [ callsign  |-> {"", "Trader-100"},
      ship_name |-> {"", "SS "},
      ship_fuel |-> {-1, 0, 100, 101},
      ship_hull |-> {-1, 0, 100, 101} ]

\* the entities offered to the collection, and the ids given to them
Entities == {"a", "b"}
ModelIds == {1, 2}

StatNames == {"strength", "agility", "intelligence", "charisma", "endurance"}
SkillNames == {"piloting", "combat", "trading", "engineering", "diplomacy"}
KarmaChanges == {-50, 25, 50}
ExperienceAmounts == {0, 500, 2500}
\* the skill handed to add_experience: none, a skill of the character, an unknown one
SkillArguments == {"None", "piloting", "cooking"}
Handlers == {"h1", "h2"}

VARIABLES
    char,       \* the Character's fields, is_dirty among them
    pre,        \* the Character's fields when the last call began
    call,       \* the last call: [op, args]
    ret,        \* what the last call returned
    emitted,    \* the events the last call published, in order
    handlers,   \* _event_handlers: event type -> the handlers its list's weak references point to
    stack,      \* the publish_event calls in progress, innermost last
    collected,  \* the handler objects that have been garbage-collected
    done,       \* <<what the publish_event that has just returned did>>, else <<>>
    unsubIn,    \* <<type, handler>> unsubscribed by a handler during a delivery of type
    subIn,      \* <<type, handler>> subscribed by a handler during a delivery of type
    history,    \* _event_history, oldest event first
    published,  \* every event ever published on the channel, in publication order
    snap,       \* <<the list the last get_event_history returned>>, else <<>>
    ship,       \* the Ship's attributes, <<>> while no Ship is in use
    location,   \* the Location's attributes, <<>> while no Location is in use
    npc,        \* the DynamicNPC's attributes, <<>> while no NPC is in use
    coll,       \* the ModelCollection and the entities offered to it, <<>> while none is in use
    heap,       \* the InventoryItem objects and the item lists that hold them, <<>> while none is in use
    clock,      \* what datetime.now() returns, in seconds
    last        \* the last call on the ship, location, NPC or collection: [op, args, pre, ret, ev]

charVars == <<char, pre, call, ret, emitted>>
chanVars == <<handlers, stack, collected, done, unsubIn, subIn>>
histVars == <<history, published, snap>>
entVars == <<ship, location, npc, coll, heap, clock, last>>
vars == <<char, pre, call, ret, emitted, handlers, stack, collected, done,
          unsubIn, subIn, history, published, snap, ship, location, npc, coll, heap,
          clock, last>>

(***************************************************************************)
(* Helpers: Python built-ins.                                              *)
(***************************************************************************)
Max(a, b) == IF a >= b THEN a ELSE b
Min(a, b) == IF a <= b THEN a ELSE b
Abs(a) == IF a >= 0 THEN a ELSE -a
\* int(x / d) for an integer x: int() truncates toward zero
TruncDiv(x, d) == IF x >= 0 THEN x \div d ELSE -((-x) \div d)

(***************************************************************************)
(* BaseModel: dirty flag and tracked fields.  A call's running state is    *)
(* s = [c |-> fields, ev |-> events published so far in this call].        *)
(***************************************************************************)
TrackedFields ==
    {"current_location", "credits", "is_alive", "karma", "alignment", "wanted_level"}

ChangedEvent(name) ==
    CASE name = "current_location" -> "current_location_changed"
      [] name = "credits" -> "credits_changed"
      [] name = "is_alive" -> "is_alive_changed"
      [] name = "karma" -> "karma_changed"
      [] name = "alignment" -> "alignment_changed"
      [] name = "wanted_level" -> "wanted_level_changed"
      [] name = "hull_points" -> "hull_points_changed"
      [] name = "is_active" -> "is_active_changed"
      [] name = "fuel" -> "fuel_changed"
      [] name = "docked_at_location" -> "docked_at_location_changed"
      [] name = "wealth_level" -> "wealth_level_changed"
      [] name = "population" -> "population_changed"
      [] name = "is_derelict" -> "is_derelict_changed"
      [] name = "gate_status" -> "gate_status_changed"
      [] name = "destination_location" -> "destination_location_changed"
      [] name = "hp" -> "hp_changed"

\* publish_event on a channel nobody has subscribed to: the event is recorded
PublishEvent(s, type, data) ==
    LET s1 == [s EXCEPT !.ev = Append(@, [type |-> type, data |-> data])]
    IN  IF "seen" \in DOMAIN s THEN [s1 EXCEPT !.seen = Append(@, s.c)] ELSE s1

MarkDirty(s) == [s EXCEPT !.c.is_dirty = TRUE]

MarkClean(s) == [s EXCEPT !.c.is_dirty = FALSE]

\* __setattr__ that announces every write of a tracked field
SetAttrNoCompare(s, name, value) ==
    IF name \in TrackedFields
    THEN PublishEvent(MarkDirty([s EXCEPT !.c[name] = value]), ChangedEvent(name),
                      [field |-> name, old_value |-> s.c[name], new_value |-> value])
    ELSE [s EXCEPT !.c[name] = value]

SetAttr(s, name, value) ==
    IF name \in TrackedFields
    THEN IF s.c[name] # value
         THEN PublishEvent(MarkDirty([s EXCEPT !.c[name] = value]), ChangedEvent(name),
                           [field |-> name, old_value |-> s.c[name], new_value |-> value])
         ELSE s
    ELSE [s EXCEPT !.c[name] = value]

\* __setattr__ on an entity whose track_field calls named the fields of tracked
SetField(s, tracked, name, value) ==
    IF name \in tracked
    THEN IF s.c[name] # value
         THEN PublishEvent(MarkDirty([s EXCEPT !.c[name] = value]), ChangedEvent(name),
                           [field |-> name, old_value |-> s.c[name], new_value |-> value])
         ELSE s
    ELSE [s EXCEPT !.c[name] = value]

(***************************************************************************)
(* Character.                                                              *)
(***************************************************************************)
NewCharacter(credits) ==
    [ current_location |-> NoLocation,
      credits          |-> credits,
      ship_fuel        |-> DefaultFuel,
      ship_hull        |-> DefaultHull,
      max_ship_hull    |-> DefaultHull,
      karma            |-> 0,
      wanted_level     |-> 0,
      alignment        |-> "neutral",
      location_status  |-> "docked",
      is_alive         |-> TRUE,
      death_count      |-> 0,
      inventory        |-> <<>>,
      max_inventory_weight |-> DefaultMaxInventoryWeight,
      experience       |-> 0,
      level            |-> 1,
      stats            |-> [stat \in StatNames |-> DefaultStat],
      skills           |-> [skill \in SkillNames |-> 1],
      is_dirty         |-> FALSE ]

\* from_dict: the constructor, then one attribute write per key of the record
FromDict(d) ==
    LET s0 == [c |-> NewCharacter(DefaultCredits), ev |-> <<>>]
        s1 == SetAttr(s0, "ship_hull", d.ship_hull)
        s2 == SetAttr(s1, "max_ship_hull", d.max_ship_hull)
        s3 == SetAttr(s2, "location_status", d.location_status)
    IN  s3

Begin == [c |-> char, ev |-> <<>>]

MoveTo(s, location_id, travel_time) ==
    IF ~s.c.is_alive
    THEN [s |-> s, ret |-> FALSE]
    ELSE LET s1 == SetAttr(s, "current_location", location_id)
             s2 == PublishEvent(s1, "character_moved",
                        [from_location |-> s.c.current_location,
                         to_location |-> location_id,
                         travel_time |-> travel_time])
         IN  [s |-> s2, ret |-> TRUE]

\* add_credits without the balance check
AddCreditsUnchecked(s, amount) ==
    LET s1 == SetAttr(s, "credits", s.c.credits + amount)
        s2 == IF Abs(amount) > MajorTransaction
              THEN PublishEvent(s1, "major_transaction",
                       [amount |-> amount, new_balance |-> s1.c.credits])
              ELSE s1
    IN  [s |-> s2, ret |-> TRUE]

AddCredits(s, amount) ==
    IF amount < 0 /\ s.c.credits + amount < 0
    THEN [s |-> s, ret |-> FALSE]
    ELSE LET s1 == SetAttr(s, "credits", s.c.credits + amount)
             s2 == IF Abs(amount) > MajorTransaction
                   THEN PublishEvent(s1, "major_transaction",
                            [amount |-> amount, new_balance |-> s1.c.credits])
                   ELSE s1
         IN  [s |-> s2, ret |-> TRUE]

HandleDeath(s, cause) ==
    LET s1 == SetAttr(s, "is_alive", FALSE)
        s2 == SetAttr(s1, "death_count", s1.c.death_count + 1)
        credits_lost == TruncDiv(s2.c.credits, 10)
        s3 == SetAttr(s2, "credits", Max(0, s2.c.credits - credits_lost))
        s4 == SetAttr(s3, "ship_hull", 0)
        s5 == SetAttr(s4, "ship_fuel", 0)
    IN  PublishEvent(s5, "character_died",
            [cause |-> cause, death_count |-> s5.c.death_count,
             credits_lost |-> credits_lost, location |-> s5.c.current_location])

\* take_damage that takes death for hull below 0 only
TakeDamageDiesBelowZero(s, damage, source) ==
    IF ~s.c.is_alive
    THEN [s |-> s, ret |-> FALSE]
    ELSE LET s1 == SetAttr(s, "ship_hull", Max(0, s.c.ship_hull - damage))
             s2 == PublishEvent(s1, "damage_taken",
                        [damage |-> damage, remaining_hull |-> s1.c.ship_hull,
                         source |-> source])
             s3 == IF s2.c.ship_hull < 0 THEN HandleDeath(s2, source) ELSE s2
         IN  [s |-> s3, ret |-> TRUE]

TakeDamage(s, damage, source) ==
    IF ~s.c.is_alive
    THEN [s |-> s, ret |-> FALSE]
    ELSE LET s1 == SetAttr(s, "ship_hull", Max(0, s.c.ship_hull - damage))
             s2 == PublishEvent(s1, "damage_taken",
                        [damage |-> damage, remaining_hull |-> s1.c.ship_hull,
                         source |-> source])
             s3 == IF s2.c.ship_hull <= 0 THEN HandleDeath(s2, source) ELSE s2
         IN  [s |-> s3, ret |-> TRUE]

\* take_damage with a handler subscribed to damage_taken that calls take_damage
\* on the character from inside the delivery: its successive invocations deal
\* the damages of strikes, and none once strikes is used up
RECURSIVE TakeDamageObserved(_, _, _, _)
TakeDamageObserved(s, damage, source, strikes) ==
    IF ~s.c.is_alive
    THEN [s |-> s, ret |-> FALSE, strikes |-> strikes]
    ELSE LET s1 == SetAttr(s, "ship_hull", Max(0, s.c.ship_hull - damage))
             s2 == PublishEvent(s1, "damage_taken",
                        [damage |-> damage, remaining_hull |-> s1.c.ship_hull,
                         source |-> source])
             handled == IF strikes = <<>>
                        THEN [s |-> s2, strikes |-> strikes]
                        ELSE TakeDamageObserved(s2, Head(strikes), "handler",
                                                Tail(strikes))
             s3 == IF handled.s.c.ship_hull <= 0
                   THEN HandleDeath(handled.s, source)
                   ELSE handled.s
         IN  [s |-> s3, ret |-> TRUE, strikes |-> handled.strikes]

\* heal without the is_alive check
HealTheDead(s, amount) ==
    LET s1 == SetAttr(s, "ship_hull", Min(s.c.max_ship_hull, s.c.ship_hull + amount))
        actual_healed == s1.c.ship_hull - s.c.ship_hull
        s2 == IF actual_healed > 0
              THEN PublishEvent(s1, "healed",
                       [amount |-> actual_healed, new_hull |-> s1.c.ship_hull])
              ELSE s1
    IN  [s |-> s2, ret |-> actual_healed]

Heal(s, amount) ==
    IF ~s.c.is_alive
    THEN [s |-> s, ret |-> 0]
    ELSE LET s1 == SetAttr(s, "ship_hull", Min(s.c.max_ship_hull, s.c.ship_hull + amount))
             actual_healed == s1.c.ship_hull - s.c.ship_hull
             s2 == IF actual_healed > 0
                   THEN PublishEvent(s1, "healed",
                            [amount |-> actual_healed, new_hull |-> s1.c.ship_hull])
                   ELSE s1
         IN  [s |-> s2, ret |-> actual_healed]

\* respawn that rounds half the hull instead of truncating it
RespawnRounded(s, respawn_location) ==
    IF s.c.is_alive
    THEN [s |-> s, ret |-> "None"]
    ELSE LET s1 == SetAttr(s, "is_alive", TRUE)
             s2 == SetAttr(s1, "current_location", respawn_location)
             s3 == SetAttr(s2, "ship_hull", TruncDiv(s2.c.max_ship_hull + 1, 2))
             s4 == SetAttr(s3, "ship_fuel", RespawnFuel)
             s5 == SetAttr(s4, "location_status", "docked")
             s6 == PublishEvent(s5, "character_respawned",
                        [location |-> respawn_location,
                         death_count |-> s5.c.death_count])
         IN  [s |-> s6, ret |-> "None"]

Respawn(s, respawn_location) ==
    IF s.c.is_alive
    THEN [s |-> s, ret |-> "None"]
    ELSE LET s1 == SetAttr(s, "is_alive", TRUE)
             s2 == SetAttr(s1, "current_location", respawn_location)
             s3 == SetAttr(s2, "ship_hull", TruncDiv(s2.c.max_ship_hull, 2))
             s4 == SetAttr(s3, "ship_fuel", RespawnFuel)
             s5 == SetAttr(s4, "location_status", "docked")
             s6 == PublishEvent(s5, "character_respawned",
                        [location |-> respawn_location,
                         death_count |-> s5.c.death_count])
         IN  [s |-> s6, ret |-> "None"]

\* the derivation with the loyal threshold excluded
AlignmentAbove(karma) ==
    IF karma > LoyalKarma THEN "loyal"
    ELSE IF karma <= BanditKarma THEN "bandit"
    ELSE "neutral"

\* the alignment update_alignment derives from karma
AlignmentOf(karma) ==
    IF karma >= LoyalKarma THEN "loyal"
    ELSE IF karma <= BanditKarma THEN "bandit"
    ELSE "neutral"

UpdateAlignment(s, karma_change) ==
    LET old_alignment == s.c.alignment
        s1 == SetAttr(s, "karma", s.c.karma + karma_change)
        s2 == SetAttr(s1, "alignment", AlignmentOf(s1.c.karma))
        s3 == IF old_alignment # s2.c.alignment
              THEN PublishEvent(s2, "alignment_changed",
                       [old_alignment |-> old_alignment,
                        new_alignment |-> s2.c.alignment,
                        karma |-> s2.c.karma])
              ELSE s2
    IN  [s |-> s3, ret |-> "None"]

\* the level-up of add_experience: one level per call
LevelUp(s) ==
    LET xp_for_next_level == s.c.level * ExperiencePerLevel
    IN  IF s.c.experience >= xp_for_next_level
        THEN LET s1 == SetAttr(s, "level", s.c.level + 1)
                 s2 == SetAttr(s1, "experience", s1.c.experience - xp_for_next_level)
                 s3 == [s2 EXCEPT !.c.stats = [stat \in StatNames |-> @[stat] + 1]]
             IN  PublishEvent(s3, "level_up",
                     [new_level |-> s3.c.level, stats |-> s3.c.stats])
        ELSE s

AddExperience(s, amount, skill) ==
    LET s1 == SetAttr(s, "experience", s.c.experience + amount)
        s2 == LevelUp(s1)
        s3 == IF skill # "None" /\ skill \in SkillNames
              THEN [s2 EXCEPT !.c.skills[skill] = Min(MaxSkill, @ + 1)]
              ELSE s2
    IN  [s |-> s3, ret |-> "None"]

(***************************************************************************)
(* Character inventory.  An InventoryItem is [item_id, quantity, weight]   *)
(* (its name, value, type and metadata are payload no operation reads).    *)
(***************************************************************************)
RECURSIVE SumWeights(_)
SumWeights(items) ==
    IF items = <<>> THEN 0
    ELSE Head(items).weight * Head(items).quantity + SumWeights(Tail(items))

GetInventoryWeight(c) == SumWeights(c.inventory)

\* the first index of items that satisfies Test, 0 when there is none
FirstIndex(items, Test(_)) ==
    IF \E i \in 1..Len(items) : Test(items[i])
    THEN CHOOSE i \in 1..Len(items) :
            Test(items[i]) /\ \A j \in 1..(i - 1) : ~Test(items[j])
    ELSE 0

RemoveAt(items, i) == SubSeq(items, 1, i - 1) \o SubSeq(items, i + 1, Len(items))

AddItem(s, item) ==
    IF GetInventoryWeight(s.c) + item.weight > s.c.max_inventory_weight
    THEN [s |-> s, ret |-> FALSE]
    ELSE LET i == FirstIndex(s.c.inventory, LAMBDA it : it.item_id = item.item_id)
         IN  IF i # 0
             THEN LET total == s.c.inventory[i].quantity + item.quantity
                      s1 == [s EXCEPT !.c.inventory[i].quantity = total]
                  IN  [s |-> PublishEvent(s1, "item_added",
                                [item |-> item.item_id, quantity |-> item.quantity,
                                 total |-> total]),
                       ret |-> TRUE]
             ELSE LET s1 == [s EXCEPT !.c.inventory = Append(@, item)]
                  IN  [s |-> PublishEvent(s1, "item_added",
                                [item |-> item.item_id, quantity |-> item.quantity]),
                       ret |-> TRUE]

\* the loop passes over a stack of the item that holds less than quantity
RemoveItem(s, item_id, quantity) ==
    LET i == FirstIndex(s.c.inventory,
                        LAMBDA it : it.item_id = item_id /\ it.quantity >= quantity)
    IN  IF i = 0
        THEN [s |-> s, ret |-> FALSE]
        ELSE IF s.c.inventory[i].quantity > quantity
             THEN LET s1 == [s EXCEPT !.c.inventory[i].quantity = @ - quantity]
                  IN  [s |-> PublishEvent(s1, "item_removed",
                                [item |-> item_id, quantity |-> quantity,
                                 remaining |-> s1.c.inventory[i].quantity]),
                       ret |-> TRUE]
             ELSE LET s1 == [s EXCEPT !.c.inventory = RemoveAt(@, i)]
                  IN  [s |-> PublishEvent(s1, "item_removed",
                                [item |-> item_id, quantity |-> quantity,
                                 remaining |-> 0]),
                       ret |-> TRUE]

(***************************************************************************)
(* The calls as actions.                                                   *)
(***************************************************************************)
Returns(op, args, r) ==
    /\ pre' = char
    /\ char' = r.s.c
    /\ emitted' = r.s.ev
    /\ ret' = r.ret
    /\ call' = [op |-> op, args |-> args]
    /\ UNCHANGED <<chanVars, histVars, entVars>>

CallMoveTo ==
    \E l \in Locations : Returns("move_to", <<l>>, MoveTo(Begin, l, "None"))

CallAddCredits ==
    \E a \in CreditAmounts :
        /\ char.credits + a <= MaxCredits
        /\ Returns("add_credits", <<a>>, AddCredits(Begin, a))

CallTakeDamage ==
    \E d \in DamageAmounts :
        LET r == TakeDamage(Begin, d, "None") IN
        /\ r.s.c.death_count <= MaxDeaths
        /\ Returns("take_damage", <<d>>, r)

CallTakeDamageObserved ==
    \E d \in DamageAmounts : \E strikes \in HandlerStrikes :
        LET r == TakeDamageObserved(Begin, d, "None", strikes) IN
        /\ r.s.c.death_count <= MaxDeaths
        /\ Returns("take_damage", <<d, strikes>>, r)

CallHeal ==
    \E a \in HealAmounts : Returns("heal", <<a>>, Heal(Begin, a))

CallRespawn ==
    \E l \in Locations : Returns("respawn", <<l>>, Respawn(Begin, l))

CallMarkClean ==
    Returns("_mark_clean", <<>>, [s |-> MarkClean(Begin), ret |-> "None"])

CallUpdateAlignment ==
    \E karma_change \in KarmaChanges :
        LET r == UpdateAlignment(Begin, karma_change)
        IN  /\ Abs(r.s.c.karma) <= MaxKarma
            /\ Returns("update_alignment", <<karma_change>>, r)

CallAddExperience ==
    \E amount \in ExperienceAmounts : \E skill \in SkillArguments :
        LET r == AddExperience(Begin, amount, skill)
        IN  /\ r.s.c.experience <= MaxExperience
            /\ r.s.c.level <= MaxCharacterLevel
            /\ \A name \in SkillNames : r.s.c.skills[name] <= MaxSkillReached
            /\ Returns("add_experience", <<amount, skill>>, r)

\* game code assigning an attribute of the character directly
CallSetAttr ==
    \E name \in WrittenFields : \E value \in FieldValues(name) :
        Returns("__setattr__", <<name, value>>,
                [s |-> SetAttr(Begin, name, value), ret |-> "None"])

CallAddItem ==
    \E id \in ItemIds : \E q \in ItemQuantities : \E w \in ItemWeights :
        LET item == [item_id |-> id, quantity |-> q, weight |-> w]
        IN  Returns("add_item", <<item>>, AddItem(Begin, item))

CallRemoveItem ==
    \E id \in ItemIds : \E q \in RemoveQuantities :
        Returns("remove_item", <<id, q>>, RemoveItem(Begin, id, q))

(***************************************************************************)
(* EventPublisher: subscribe, unsubscribe and the delivery loop of         *)
(* publish_event.  _event_handlers maps a type to a list OBJECT; subscribe *)
(* appends to the object in place, unsubscribe and the end of publish_event*)
(* bind the type to a new object.  A publish_event in progress is a frame: *)
(* iter, the content of the object its for loop iterates; shared, whether  *)
(* that object is still the one _event_handlers holds for the type (an     *)
(* append to the one is then an append to the other); idx, the loop's      *)
(* position; alive, alive_handlers, a reference to each handler called.    *)
(* A frame also records, for the properties: n0, the length of the list    *)
(* when the loop began, list0, that list, and dead0, the handlers of it    *)
(* that had been collected by then; failed, the positions in               *)
(* alive_handlers of the                                                   *)
(* handlers that raised; quiet, whether no subscribe, unsubscribe or       *)
(* collection has happened since the loop began (the iterated list and the *)
(* liveness of its handlers are then as they were when it began).          *)
(* handlers[type] is <<>> while type is no key of _event_handlers and      *)
(* <<registrations>> once it is.                                           *)
(***************************************************************************)
Range(seq) == {seq[i] : i \in 1..Len(seq)}

HasKey(type) == handlers[type] # <<>>

Registered(type) == IF HasKey(type) THEN handlers[type][1] ELSE <<>>

Top == stack[Len(stack)]

\* code outside the channel runs: the caller of the entity, or the handler in progress
CanCall == IF stack = <<>> THEN TRUE ELSE Top.running

RunningHandlers ==
    {stack[i].iter[stack[i].idx] : i \in {j \in 1..Len(stack) : stack[j].running}}

Delivering(type) == \E i \in 1..Len(stack) : stack[i].type = type

Live(seq) == SelectSeq(seq, LAMBDA r : r \notin collected)

Subscribe(type, handler) ==
    /\ CanCall
    /\ handler \notin collected
    /\ Len(Registered(type)) < MaxRegistrations
    /\ handlers' = [handlers EXCEPT ![type] = <<Append(Registered(type), handler)>>]
    /\ stack' = [i \in 1..Len(stack) |->
                    [stack[i] EXCEPT
                        !.quiet = FALSE,
                        !.iter = IF stack[i].type = type /\ stack[i].shared
                                 THEN Append(@, handler) ELSE @]]
    /\ subIn' = IF Delivering(type) THEN subIn \cup {<<type, handler>>} ELSE subIn
    /\ unsubIn' = unsubIn \ {<<type, handler>>}
    /\ done' = <<>>
    /\ UNCHANGED <<histVars, entVars, char, pre, call, ret, emitted, collected>>

Unsubscribe(type, handler) ==
    /\ CanCall
    /\ handler \notin collected
    /\ IF HasKey(type)
       THEN /\ handlers' = [handlers EXCEPT ![type] =
                   <<SelectSeq(Registered(type),
                               LAMBDA r : r \notin collected /\ r # handler)>>]
            /\ stack' = [i \in 1..Len(stack) |->
                            [stack[i] EXCEPT
                                !.quiet = FALSE,
                                !.shared = IF stack[i].type = type THEN FALSE ELSE @]]
       ELSE UNCHANGED <<handlers, stack>>
    /\ unsubIn' = IF Delivering(type) THEN unsubIn \cup {<<type, handler>>} ELSE unsubIn
    /\ subIn' = subIn \ {<<type, handler>>}
    /\ done' = <<>>
    /\ UNCHANGED <<histVars, entVars, char, pre, call, ret, emitted, collected>>

\* the garbage collector reclaims a handler nothing but weak references point to
Collect(handler) ==
    /\ CanCall
    /\ handler \notin collected
    /\ handler \notin RunningHandlers
    /\ collected' = collected \cup {handler}
    /\ stack' = [i \in 1..Len(stack) |-> [stack[i] EXCEPT !.quiet = FALSE]]
    /\ subIn' = {q \in subIn : q[2] # handler}
    /\ done' = <<>>
    /\ UNCHANGED <<histVars, entVars, char, pre, call, ret, emitted, handlers, unsubIn>>

NewFrame(type) ==
    [ type    |-> type,
      iter    |-> Registered(type),
      shared  |-> TRUE,
      idx     |-> 1,
      alive   |-> <<>>,
      running |-> FALSE,
      n0      |-> Len(Registered(type)),
      dead0   |-> Range(Registered(type)) \cap collected,
      list0   |-> Registered(type),
      failed  |-> {},
      quiet   |-> TRUE ]

\* publish_event after the history append: with no list for the type it returns
StartDelivery(type) ==
    IF HasKey(type)
    THEN /\ done' = <<>>
         /\ stack' = Append(stack, NewFrame(type))
    ELSE /\ done' = <<[type |-> type, live |-> <<>>, called |-> <<>>, failed |-> {},
                       quiet |-> TRUE, raised |-> FALSE, dead0 |-> {}, list0 |-> <<>>]>>
         /\ UNCHANGED stack

\* what the caller's records of handlers subscribed or unsubscribed in a
\* delivery are when a call is made: a call from outside begins afresh
Since(pairs) == IF stack = <<>> THEN {} ELSE pairs

Publish(type) ==
    /\ CanCall
    /\ Len(stack) < MaxDepth
    /\ StartDelivery(type)
    /\ subIn' = Since(subIn)
    /\ unsubIn' = Since(unsubIn)
    /\ UNCHANGED <<histVars, entVars, char, pre, call, ret, emitted, collected, handlers>>

\* the caller assigns credits while handlers may be subscribed
WriteCredits(value) ==
    /\ stack = <<>>
    /\ LET s == SetAttr(Begin, "credits", value)
       IN  /\ char' = s.c
           /\ IF s.ev # <<>>
              THEN StartDelivery(s.ev[1].type)
              ELSE done' = <<>> /\ UNCHANGED stack
    /\ subIn' = {}
    /\ unsubIn' = {}
    /\ pre' = char
    /\ call' = [op |-> "__setattr__", args |-> <<"credits", value>>]
    /\ UNCHANGED <<histVars, entVars, ret, emitted, collected, handlers>>

ReplaceTop(f) == [stack EXCEPT ![Len(stack)] = f]

\* the for loop reaches a registration whose handler is alive and calls it
DeliverInvoke ==
    /\ stack # <<>>
    /\ ~Top.running
    /\ Top.idx <= Len(Top.iter)
    /\ Top.iter[Top.idx] \notin collected
    /\ stack' = ReplaceTop([Top EXCEPT !.running = TRUE])
    /\ UNCHANGED <<histVars, entVars, char, pre, call, ret, emitted, handlers, collected, done,
                   unsubIn, subIn>>

\* a loop that keeps the dead weak reference it passes over
DeliverKeepDead ==
    /\ stack # <<>>
    /\ ~Top.running
    /\ Top.idx <= Len(Top.iter)
    /\ Top.iter[Top.idx] \in collected
    /\ stack' = ReplaceTop([Top EXCEPT !.idx = @ + 1,
                                       !.alive = Append(@, Top.iter[Top.idx])])
    /\ UNCHANGED <<histVars, entVars, char, pre, call, ret, emitted, handlers, collected, done,
                   unsubIn, subIn>>

\* the for loop reaches a dead weak reference and passes over it
DeliverSkipDead ==
    /\ stack # <<>>
    /\ ~Top.running
    /\ Top.idx <= Len(Top.iter)
    /\ Top.iter[Top.idx] \in collected
    /\ stack' = ReplaceTop([Top EXCEPT !.idx = @ + 1])
    /\ UNCHANGED <<histVars, entVars, char, pre, call, ret, emitted, handlers, collected, done,
                   unsubIn, subIn>>

\* the for loop is over: the type is bound to alive_handlers and publish_event returns
DeliverFinish ==
    /\ stack # <<>>
    /\ ~Top.running
    /\ Top.idx > Len(Top.iter)
    /\ handlers' = [handlers EXCEPT ![Top.type] = <<Top.alive>>]
    /\ stack' = [i \in 1..(Len(stack) - 1) |->
                    [stack[i] EXCEPT
                        !.shared = IF stack[i].type = Top.type THEN FALSE ELSE @]]
    /\ done' = <<[type |-> Top.type, live |-> Live(Top.iter),
                  called |-> Top.alive, failed |-> Top.failed,
                  quiet |-> Top.quiet, raised |-> FALSE,
                  dead0 |-> Top.dead0, list0 |-> Top.list0]>>
    /\ UNCHANGED <<histVars, entVars, char, pre, call, ret, emitted, collected, unsubIn, subIn>>

\* the handler called has returned (ok) or raised: its reference is kept
AfterHandler(ok) ==
    [Top EXCEPT !.running = FALSE,
                !.idx = @ + 1,
                !.alive = Append(@, Top.iter[Top.idx]),
                !.failed = IF ok THEN @ ELSE @ \cup {Len(Top.alive) + 1}]

HandlerReturn ==
    /\ stack # <<>>
    /\ Top.running
    /\ stack' = ReplaceTop(AfterHandler(TRUE))
    /\ done' = <<>>
    /\ UNCHANGED <<histVars, entVars, char, pre, call, ret, emitted, handlers, collected,
                   unsubIn, subIn>>

\* publish_event without the try/except: the exception leaves every frame
HandlerRaisePropagates ==
    /\ stack # <<>>
    /\ Top.running
    /\ stack' = <<>>
    /\ done' = <<[type |-> stack[1].type, live |-> Live(stack[1].iter),
                  called |-> stack[1].alive, failed |-> stack[1].failed,
                  quiet |-> stack[1].quiet, raised |-> TRUE,
                  dead0 |-> stack[1].dead0, list0 |-> stack[1].list0]>>
    /\ UNCHANGED <<histVars, entVars, char, pre, call, ret, emitted, handlers, collected,
                   unsubIn, subIn>>

\* the handler raises an Exception: it is caught and logged, the loop goes on
HandlerRaise ==
    /\ stack # <<>>
    /\ Top.running
    /\ stack' = ReplaceTop(AfterHandler(FALSE))
    /\ done' = <<>>
    /\ UNCHANGED <<histVars, entVars, char, pre, call, ret, emitted, handlers, collected,
                   unsubIn, subIn>>

InitChan ==
    /\ handlers = [t \in EventTypes |-> <<>>]
    /\ stack = <<>>
    /\ collected = {}
    /\ done = <<>>
    /\ unsubIn = {}
    /\ subIn = {}

NextChan ==
    \/ \E type \in EventTypes : \E handler \in Handlers : Subscribe(type, handler)
    \/ \E type \in EventTypes : \E handler \in Handlers : Unsubscribe(type, handler)
    \/ \E handler \in Handlers : Collect(handler)
    \/ \E type \in EventTypes : Publish(type)
    \/ \E value \in ChanCredits : WriteCredits(value)
    \/ DeliverInvoke
    \/ DeliverSkipDead
    \/ DeliverFinish
    \/ HandlerReturn
    \/ HandlerRaise

(***************************************************************************)
(* EventPublisher: the event history.  publish_event appends the event to  *)
(* _event_history in place and drops the oldest beyond _max_history_size;  *)
(* get_event_history builds a new list.  An event is a GameEvent object of *)
(* its own: its data here is its number in publication order.  snap holds  *)
(* the list get_event_history last returned: list, its content now; live,  *)
(* whether it is the _event_history object itself; and, for the            *)
(* properties, returned, its content when it was returned, event_type, the *)
(* filter asked for, and at, how many events had been published by then.   *)
(***************************************************************************)
NoFilter == "None"

RecordEvent(events, event) ==
    LET appended == Append(events, event)
    IN  IF Len(appended) > MaxHistorySize THEN Tail(appended) ELSE appended

\* get_event_history that hands out _event_history itself when no type is asked for
GetEventHistoryLive(event_type) ==
    IF event_type # NoFilter
    THEN [list |-> SelectSeq(history, LAMBDA e : e.type = event_type), live |-> FALSE]
    ELSE [list |-> history, live |-> TRUE]

GetEventHistory(event_type) ==
    IF event_type # NoFilter
    THEN [list |-> SelectSeq(history, LAMBDA e : e.type = event_type), live |-> FALSE]
    ELSE [list |-> history, live |-> FALSE]

PublishesSoFar ==
    IF Len(published) >= EarlierPublishes
    THEN Len(published) - EarlierPublishes
    ELSE Len(published)

\* publish_event(type, data) from outside, whole: the history, then the delivery
PublishRecorded(type) ==
    /\ stack = <<>>
    /\ PublishesSoFar < MaxPublishes
    /\ LET event == [type |-> type, data |-> Len(published) + 1]
       IN  /\ history' = RecordEvent(history, event)
           /\ published' = Append(published, event)
    /\ snap' = IF snap # <<>> /\ snap[1].live
               THEN <<[snap[1] EXCEPT !.list = history']>>
               ELSE snap
    /\ StartDelivery(type)
    /\ UNCHANGED <<char, pre, call, ret, emitted, collected, handlers, unsubIn, subIn,
                   entVars>>

CallGetEventHistory(event_type) ==
    /\ stack = <<>>
    /\ LET r == GetEventHistory(event_type)
       IN  snap' = <<[list |-> r.list, live |-> r.live, returned |-> r.list,
                      event_type |-> event_type, at |-> Len(published)]>>
    /\ UNCHANGED <<charVars, chanVars, entVars, history, published>>

NewHistory ==
    /\ history = <<>>
    /\ published = <<>>
    /\ snap = <<>>

\* the channel is new, or EarlierPublishes events have been published on it
InitHist ==
    /\ \/ published = <<>>
       \/ published = [n \in 1..EarlierPublishes |-> [type |-> "custom", data |-> n]]
    /\ history = published
    /\ snap = <<>>

NextHist ==
    \/ \E type \in EventTypes : PublishRecorded(type)
    \/ \E event_type \in EventTypes \cup {NoFilter} : CallGetEventHistory(event_type)

InitChar ==
    /\ \/ char = NewCharacter(DefaultCredits)
       \/ \E d \in SavedRecords : char = FromDict(d).c
    /\ pre = char
    /\ call = [op |-> "__init__", args |-> <<>>]
    /\ ret = "None"
    /\ emitted = <<>>

(***************************************************************************)
(* Ship.  Ship.__init__ raises for every ship type (_initialize_ship_stats *)
(* builds the whole table of configurations, and the explorer's ShipStats  *)
(* call names a field ShipStats does not have): NewShip models it as it    *)
(* is.  The operations are modelled on TemplateShip(type), the object the  *)
(* rest of __init__ builds from the table when that call is accepted.      *)
(* damage_report is in hundredths; _upgrades is the dict in insertion      *)
(* order; the cargo bay, the owner, the name and the docking location are  *)
(* read by none of the operations below and are left out.                  *)
(***************************************************************************)
ShipStatsFields ==
    {"max_speed", "acceleration", "maneuverability", "shield_strength", "weapon_power",
     "targeting_accuracy", "scanner_range", "stealth_rating", "power_generation"}

\* ship_configs: the template values and the keywords of the ShipStats call
ShipConfigs ==
    [ shuttle   |-> [cargo_capacity |-> 50, fuel_capacity |-> 80, max_hull_points |-> 50,
                     base_stats |-> {"max_speed", "maneuverability"}],
      fighter   |-> [cargo_capacity |-> 20, fuel_capacity |-> 100, max_hull_points |-> 80,
                     base_stats |-> {"max_speed", "maneuverability", "weapon_power"}],
      freighter |-> [cargo_capacity |-> 200, fuel_capacity |-> 150,
                     max_hull_points |-> 150,
                     base_stats |-> {"max_speed", "maneuverability", "shield_strength"}],
      explorer  |-> [cargo_capacity |-> 100, fuel_capacity |-> 200,
                     max_hull_points |-> 100,
                     base_stats |-> {"scanner_range", "fuel_efficiency"}],
      corvette  |-> [cargo_capacity |-> 80, fuel_capacity |-> 120, max_hull_points |-> 120,
                     base_stats |-> {"max_speed", "weapon_power", "shield_strength"}],
      cruiser   |-> [cargo_capacity |-> 150, fuel_capacity |-> 180,
                     max_hull_points |-> 200,
                     base_stats |-> {"weapon_power", "shield_strength", "power_generation"}],
      carrier   |-> [cargo_capacity |-> 300, fuel_capacity |-> 250,
                     max_hull_points |-> 300,
                     base_stats |-> {"max_speed", "shield_strength", "power_generation"}] ]

Systems == {"hull", "engine", "weapons", "shields", "life_support"}

ShipTrackedFields == {"hull_points", "fuel", "docked_at_location", "is_active"}

\* the object __init__ builds from the configuration of ship_type
TemplateShip(ship_type) ==
    LET config == IF ship_type \in DOMAIN ShipConfigs
                  THEN ShipConfigs[ship_type]
                  ELSE ShipConfigs["shuttle"]
    IN  [ ship_type       |-> ship_type,
          cargo_capacity  |-> config.cargo_capacity,
          fuel_capacity   |-> config.fuel_capacity,
          max_hull_points |-> config.max_hull_points,
          hull_points     |-> config.max_hull_points,
          fuel            |-> config.fuel_capacity,
          upgrades        |-> <<>>,
          engine_level    |-> 1,
          shield_level    |-> 0,
          weapon_level    |-> 1,
          power_available |-> DefaultPower,
          power_used      |-> 0,
          is_active       |-> TRUE,
          damage_report   |-> [system \in Systems |-> 0],
          is_dirty        |-> FALSE ]

\* Ship(ship_type=...): every ShipStats call of the table is evaluated first
NewShip(ship_type) ==
    IF \A t \in DOMAIN ShipConfigs : ShipConfigs[t].base_stats \subseteq ShipStatsFields
    THEN [raised |-> "None", ship |-> TemplateShip(ship_type)]
    ELSE [raised |-> "TypeError", ship |-> <<>>]

SetShip(s, name, value) == SetField(s, ShipTrackedFields, name, value)

ConsumeFuel(s, amount) ==
    IF s.c.fuel < amount
    THEN [s |-> s, ret |-> FALSE]
    ELSE LET s1 == SetShip(s, "fuel", s.c.fuel - amount)
             s2 == IF 10 * s1.c.fuel <= s1.c.fuel_capacity
                   THEN PublishEvent(s1, "fuel_critical",
                            [fuel_remaining |-> s1.c.fuel])
                   ELSE IF 4 * s1.c.fuel <= s1.c.fuel_capacity
                        THEN PublishEvent(s1, "fuel_low", [fuel_remaining |-> s1.c.fuel])
                        ELSE s1
         IN  [s |-> s2, ret |-> TRUE]

Refuel(s, amount) ==
    LET s1 == SetShip(s, "fuel", Min(s.c.fuel_capacity, s.c.fuel + amount))
        actual_refueled == s1.c.fuel - s.c.fuel
        s2 == IF actual_refueled > 0
              THEN PublishEvent(s1, "ship_refueled",
                       [amount |-> actual_refueled, fuel_level |-> s1.c.fuel,
                        capacity |-> s1.c.fuel_capacity])
              ELSE s1
    IN  [s |-> s2, ret |-> actual_refueled]

\* shields that absorb shield_level, not ten times it
ShieldAbsorptionFlat(c, damage, damage_type) ==
    IF c.shield_level > 0 /\ damage_type # "bypass"
    THEN Min(damage, c.shield_level)
    ELSE 0

ShieldAbsorption(c, damage, damage_type) ==
    IF c.shield_level > 0 /\ damage_type # "bypass"
    THEN Min(damage, c.shield_level * ShieldFactor)
    ELSE 0

\* system damage that falls on a random subsystem whatever the damage type
ApplySystemDamageAnywhere(s, damage_type, rnd_system, rnd_amount) ==
    LET s1 == [s EXCEPT !.c.damage_report[rnd_system] = Min(100, @ + rnd_amount)]
    IN  IF s1.c.damage_report[rnd_system] > 50
        THEN PublishEvent(s1, "system_damaged",
                 [system |-> rnd_system,
                  damage_level |-> s1.c.damage_report[rnd_system]])
        ELSE s1

\* rnd_system is what random.choice returns, rnd_amount what random.uniform does
ApplySystemDamage(s, damage_type, rnd_system, rnd_amount) ==
    LET system == IF damage_type = "general" THEN rnd_system
                  ELSE IF damage_type \in Systems THEN damage_type
                  ELSE "hull"
        s1 == [s EXCEPT !.c.damage_report[system] = Min(100, @ + rnd_amount)]
    IN  IF s1.c.damage_report[system] > 50
        THEN PublishEvent(s1, "system_damaged",
                 [system |-> system, damage_level |-> s1.c.damage_report[system]])
        ELSE s1

ApplyDamage(s, damage, damage_type, rnd_system, rnd_amount) ==
    LET shield_absorption == ShieldAbsorption(s.c, damage, damage_type)
        actual_damage == damage - shield_absorption
        s1 == IF shield_absorption > 0
              THEN PublishEvent(s, "shields_hit",
                       [absorbed |-> shield_absorption,
                        remaining_damage |-> actual_damage])
              ELSE s
    IN  IF actual_damage > 0
        THEN LET s2 == SetShip(s1, "hull_points", Max(0, s1.c.hull_points - actual_damage))
                 s3 == IF 2 * s2.c.hull_points < s2.c.max_hull_points
                       THEN ApplySystemDamage(s2, damage_type, rnd_system, rnd_amount)
                       ELSE s2
                 s4 == IF s3.c.hull_points = 0
                       THEN PublishEvent(SetShip(s3, "is_active", FALSE), "ship_destroyed",
                                [final_damage |-> actual_damage,
                                 damage_type |-> damage_type])
                       ELSE IF 5 * s3.c.hull_points < s3.c.max_hull_points
                            THEN PublishEvent(s3, "hull_critical",
                                     [hull_remaining |-> s3.c.hull_points])
                            ELSE s3
             IN  [s |-> s4, ret |-> actual_damage]
        ELSE [s |-> s1, ret |-> actual_damage]

Repair(s, amount, system) ==
    IF system # "None" /\ system \in Systems
    THEN LET old_damage == s.c.damage_report[system]
             s1 == [s EXCEPT !.c.damage_report[system] = Max(0, @ - amount)]
             repair_amount == old_damage - s1.c.damage_report[system]
         IN  [s |-> PublishEvent(s1, "system_repaired",
                        [system |-> system, repair_amount |-> repair_amount,
                         remaining_damage |-> s1.c.damage_report[system]]),
              ret |-> repair_amount]
    ELSE LET s1 == SetShip(s, "hull_points",
                           Min(s.c.max_hull_points, s.c.hull_points + amount))
             actual_repaired == s1.c.hull_points - s.c.hull_points
         IN  IF actual_repaired > 0
             THEN [s |-> PublishEvent(
                            [s1 EXCEPT !.c.damage_report =
                                [sys \in Systems |-> Max(0, @[sys] - 10)]],
                            "ship_repaired",
                            [amount |-> actual_repaired, hull_points |-> s1.c.hull_points,
                             max_hull |-> s1.c.max_hull_points]),
                   ret |-> actual_repaired]
             ELSE [s |-> s1, ret |-> actual_repaired]

\* max(level, the levels of the upgrades of upgrade_type in upgrades)
RECURSIVE MaxLevel(_, _, _)
MaxLevel(upgrades, upgrade_type, level) ==
    IF upgrades = <<>> THEN level
    ELSE MaxLevel(Tail(upgrades), upgrade_type,
                  IF Head(upgrades).upgrade_type = upgrade_type
                  THEN Max(level, Head(upgrades).level)
                  ELSE level)

RecalculateUpgradeLevels(s) ==
    [s EXCEPT !.c.engine_level = MaxLevel(s.c.upgrades, "engine", 1),
              !.c.shield_level = MaxLevel(s.c.upgrades, "shield", 0),
              !.c.weapon_level = MaxLevel(s.c.upgrades, "weapon", 1)]

RemoveUpgrade(s, upgrade_id) ==
    LET i == FirstIndex(s.c.upgrades, LAMBDA up : up.upgrade_id = upgrade_id)
    IN  IF i = 0
        THEN [s |-> s, ret |-> "None"]
        ELSE LET upgrade == s.c.upgrades[i]
                 bonus == upgrade.bonus_value
                 s1 == [s EXCEPT !.c.upgrades = RemoveAt(@, i),
                                 !.c.power_used = @ - upgrade.power_requirement]
                 s2 == IF upgrade.upgrade_type = "cargo"
                       THEN [s1 EXCEPT !.c.cargo_capacity = @ - bonus]
                       ELSE IF upgrade.upgrade_type = "fuel"
                            THEN [s1 EXCEPT !.c.fuel_capacity = @ - bonus]
                            ELSE s1
                 s3 == RecalculateUpgradeLevels(s2)
             IN  [s |-> PublishEvent(s3, "upgrade_removed",
                            [upgrade_id |-> upgrade.upgrade_id,
                             upgrade_type |-> upgrade.upgrade_type]),
                  ret |-> upgrade]

\* self._upgrades[upgrade.upgrade_id] = upgrade
PutUpgrade(upgrades, upgrade) ==
    LET i == FirstIndex(upgrades, LAMBDA up : up.upgrade_id = upgrade.upgrade_id)
    IN  IF i = 0 THEN Append(upgrades, upgrade) ELSE [upgrades EXCEPT ![i] = upgrade]

\* add_upgrade past its power check
InstallUpgrade(s, upgrade) ==
    LET i == FirstIndex(s.c.upgrades,
                        LAMBDA up : up.upgrade_type = upgrade.upgrade_type)
        s1 == IF i # 0 THEN RemoveUpgrade(s, s.c.upgrades[i].upgrade_id).s ELSE s
        s2 == [s1 EXCEPT !.c.upgrades = PutUpgrade(@, upgrade),
                         !.c.power_used = @ + upgrade.power_requirement]
        type == upgrade.upgrade_type
        s3 == CASE type = "engine" ->
                      [s2 EXCEPT !.c.engine_level = Max(@, upgrade.level)]
                [] type = "shield" ->
                      [s2 EXCEPT !.c.shield_level = Max(@, upgrade.level)]
                [] type = "weapon" ->
                      [s2 EXCEPT !.c.weapon_level = Max(@, upgrade.level)]
                [] type = "cargo" ->
                      [s2 EXCEPT !.c.cargo_capacity = @ + upgrade.bonus_value]
                [] type = "fuel" ->
                      [s2 EXCEPT !.c.fuel_capacity = @ + upgrade.bonus_value]
                [] OTHER -> s2
    IN  [s |-> PublishEvent(s3, "upgrade_installed",
                   [upgrade_id |-> upgrade.upgrade_id, upgrade_type |-> type,
                    level |-> upgrade.level]),
         ret |-> TRUE]

\* add_upgrade without the power check
AddUpgradeUnchecked(s, upgrade) == InstallUpgrade(s, upgrade)

AddUpgrade(s, upgrade) ==
    IF s.c.power_used + upgrade.power_requirement > s.c.power_available
    THEN [s |-> s, ret |-> FALSE]
    ELSE InstallUpgrade(s, upgrade)

\* no call has been made on the ship, location or NPC
NoCall == [op |-> "None", args |-> <<>>, pre |-> <<>>, ret |-> "None", ev |-> <<>>]

BeginShip == [c |-> ship, ev |-> <<>>]

ShipReturns(op, args, r) ==
    /\ ship' = r.s.c
    /\ last' = [op |-> op, args |-> args, pre |-> ship, ret |-> r.ret, ev |-> r.s.ev]
    /\ UNCHANGED <<coll, heap, charVars, chanVars, histVars, location, npc, clock>>

\* another Ship is constructed; the ship in use is not touched
CallNewShip ==
    \E ship_type \in ShipTypes :
        /\ last' = [op |-> "Ship", args |-> <<ship_type>>, pre |-> ship,
                    ret |-> NewShip(ship_type), ev |-> <<>>]
        /\ UNCHANGED <<coll, heap, charVars, chanVars, histVars, ship, location, npc, clock>>

CallConsumeFuel ==
    \E amount \in FuelAmounts :
        ShipReturns("consume_fuel", <<amount>>, ConsumeFuel(BeginShip, amount))

CallRefuel ==
    \E amount \in RefuelAmounts : ShipReturns("refuel", <<amount>>, Refuel(BeginShip, amount))

SumReport(report) ==
    report["hull"] + report["engine"] + report["weapons"] + report["shields"]
        + report["life_support"]

CallApplyDamage ==
    \E damage \in ShipDamage : \E damage_type \in DamageTypes :
        \E rnd_system \in RandomSystems : \E rnd_amount \in RandomDamage :
            LET r == ApplyDamage(BeginShip, damage, damage_type, rnd_system, rnd_amount)
            IN  /\ SumReport(r.s.c.damage_report) <= MaxDegradation
                /\ ShipReturns("apply_damage", <<damage, damage_type>>, r)

CallRepair ==
    \E amount \in RepairAmounts : \E system \in RepairSystems :
        ShipReturns("repair", <<amount, system>>, Repair(BeginShip, amount, system))

CallAddUpgrade ==
    \E upgrade \in Upgrades :
        ShipReturns("add_upgrade", <<upgrade>>, AddUpgrade(BeginShip, upgrade))

CallRemoveUpgrade ==
    \E upgrade_id \in UpgradeIds :
        ShipReturns("remove_upgrade", <<upgrade_id>>, RemoveUpgrade(BeginShip, upgrade_id))

\* a ship of one of ShipTypes, as __init__ builds it from the table
InitShip ==
    /\ InitChar
    /\ char = NewCharacter(DefaultCredits)
    /\ InitChan
    /\ NewHistory
    /\ ship \in {TemplateShip(ship_type) : ship_type \in ShipInUse}
    /\ location = <<>>
    /\ npc = <<>>
    /\ coll = <<>>
    /\ heap = <<>>
    /\ clock = 0
    /\ last = NoCall

NextShip ==
    \/ CallNewShip
    \/ CallConsumeFuel
    \/ CallRefuel
    \/ CallApplyDamage
    \/ CallRepair
    \/ CallAddUpgrade
    \/ CallRemoveUpgrade

SpecShip == InitShip /\ [][NextShip]_vars

\* consume_fuel in small amounts, under a fuel_capacity the upgrades change
CallConsumeFuelSmall ==
    \E amount \in SmallFuelAmounts :
        ShipReturns("consume_fuel", <<amount>>, ConsumeFuel(BeginShip, amount))

NextFuel ==
    \/ CallConsumeFuelSmall
    \/ CallRefuel
    \/ CallAddUpgrade
    \/ CallRemoveUpgrade

SpecFuel == InitShip /\ [][NextFuel]_vars

\* apply_damage with a subsystem as damage type and up to a destroyed subsystem
CallApplyDamageTyped ==
    \E damage \in HullDamage : \E damage_type \in SystemDamageTypes :
        \E rnd_system \in RandomSystems : \E rnd_amount \in UniformDamage :
            ShipReturns("apply_damage", <<damage, damage_type>>,
                        ApplyDamage(BeginShip, damage, damage_type, rnd_system, rnd_amount))

NextDamage ==
    \/ CallApplyDamageTyped
    \/ CallRepair

SpecDamage == InitShip /\ [][NextDamage]_vars

(***************************************************************************)
(* Location.  _services is a set mutated in place (add, remove, clear): no *)
(* write of it goes through __setattr__.  description is kept as the       *)
(* number of "Abandoned " prefixes put before the constructor's default    *)
(* text "A <type> in the galaxy"; the word "derelict" is in it only for    *)
(* the type derelict.                                                      *)
(***************************************************************************)
LocationTrackedFields == {"wealth_level", "population", "is_derelict", "gate_status"}

\* Service, in declaration order
Services ==
    << "jobs", "shops", "medical", "repairs", "fuel", "upgrades", "black_market",
       "federal_supplies", "shipyard", "bank", "comms", "homes" >>

\* the services _initialize_services adds for a type and a wealth level
InitialServices(location_type, wealth_level) ==
    (IF location_type # "derelict" THEN {"jobs", "comms"} ELSE {})
    \cup (IF wealth_level >= 3 THEN {"shops", "fuel"} ELSE {})
    \cup (IF wealth_level >= 5 THEN {"medical", "repairs"} ELSE {})
    \cup (IF wealth_level >= 7 THEN {"upgrades", "bank"} ELSE {})
    \cup (IF location_type = "colony"
          THEN {"homes"} \cup (IF wealth_level >= 6 THEN {"shipyard"} ELSE {})
          ELSE IF location_type = "space_station"
               THEN {"repairs", "fuel"}
                    \cup (IF wealth_level >= 8 THEN {"federal_supplies"} ELSE {})
               ELSE IF location_type = "outpost"
                    THEN (IF wealth_level <= 4 THEN {"black_market"} ELSE {})
                    ELSE {})

\* _initialize_services adds to the set that is there
InitializeServices(s) ==
    [s EXCEPT !.c.services = @ \cup InitialServices(s.c.location_type, s.c.wealth_level)]

NewLocation(location_type, wealth_level, population) ==
    [ location_type |-> location_type,
      wealth_level  |-> wealth_level,
      population    |-> population,
      abandoned     |-> 0,
      services      |-> InitialServices(location_type, wealth_level),
      is_derelict   |-> FALSE,
      gate_status   |-> "active",
      is_dirty      |-> FALSE ]

SetLocation(s, name, value) == SetField(s, LocationTrackedFields, name, value)

AddService(s, service) ==
    IF service \notin s.c.services
    THEN PublishEvent([s EXCEPT !.c.services = @ \cup {service}], "service_added",
                      [service |-> service])
    ELSE s

RemoveService(s, service) ==
    IF service \in s.c.services
    THEN PublishEvent([s EXCEPT !.c.services = @ \ {service}], "service_removed",
                      [service |-> service])
    ELSE s

UpdateWealth(s, change) ==
    LET old_wealth == s.c.wealth_level
        s1 == SetLocation(s, "wealth_level", Max(1, Min(10, s.c.wealth_level + change)))
    IN  IF old_wealth # s1.c.wealth_level
        THEN InitializeServices([s1 EXCEPT !.c.services = {}])
        ELSE s1

UpdatePopulation(s, change) ==
    SetLocation(s, "population", Max(0, s.c.population + change))

\* the loop of set_derelict over list(self._services), from its i-th service on
\* (taken in declaration order; the order only decides the order of the events)
RECURSIVE RemoveAllButComms(_, _, _)
RemoveAllButComms(s, services_to_remove, i) ==
    IF i > Len(Services)
    THEN s
    ELSE RemoveAllButComms(
             IF Services[i] \in services_to_remove /\ Services[i] # "comms"
             THEN RemoveService(s, Services[i])
             ELSE s,
             services_to_remove, i + 1)

\* "derelict" not in self.description.lower()
DescriptionLacksDerelict(c) == c.location_type # "derelict"

SetDerelict(s, is_derelict) ==
    LET s1 == SetLocation(s, "is_derelict", is_derelict)
    IN  IF is_derelict
        THEN LET s2 == RemoveAllButComms(s1, s1.c.services, 1)
                 s3 == SetLocation(s2, "population", 0)
             IN  IF DescriptionLacksDerelict(s3.c)
                 THEN [s3 EXCEPT !.c.abandoned = @ + 1]
                 ELSE s3
        ELSE InitializeServices(s1)

\* seen[i] is the location as the handlers of the i-th event of the call find it
BeginLocation == [c |-> location, ev |-> <<>>, seen |-> <<>>]

\* a call on the location returns; prior is the call made before it
LocationReturns(op, args, s) ==
    /\ location' = s.c
    /\ last' = [op |-> op, args |-> args, pre |-> location, ret |-> "None", ev |-> s.ev,
                prior |-> <<last.op, last.args>>, seen |-> s.seen]
    /\ UNCHANGED <<coll, heap, charVars, chanVars, histVars, ship, npc, clock>>

CallAddService ==
    \E service \in AddedServices :
        LocationReturns("add_service", <<service>>, AddService(BeginLocation, service))

CallRemoveService ==
    \E service \in RemovedServices :
        LocationReturns("remove_service", <<service>>, RemoveService(BeginLocation, service))

CallUpdateWealth ==
    \E change \in WealthChanges :
        LocationReturns("update_wealth", <<change>>, UpdateWealth(BeginLocation, change))

CallUpdatePopulation ==
    \E change \in PopulationChanges :
        LET s == UpdatePopulation(BeginLocation, change)
        IN  /\ s.c.population <= MaxPopulation
            /\ LocationReturns("update_population", <<change>>, s)

CallSetDerelict ==
    \E is_derelict \in BOOLEAN :
        LET s == SetDerelict(BeginLocation, is_derelict)
        IN  /\ s.c.abandoned <= MaxAbandoned
            /\ LocationReturns("set_derelict", <<is_derelict>>, s)

\* a location of any type and wealth level, just constructed
InitLocation ==
    /\ InitChar
    /\ char = NewCharacter(DefaultCredits)
    /\ InitChan
    /\ NewHistory
    /\ ship = <<>>
    /\ location \in {NewLocation(location_type, wealth_level, DefaultPopulation) :
                        location_type \in LocationTypes, wealth_level \in WealthLevels}
    /\ npc = <<>>
    /\ coll = <<>>
    /\ heap = <<>>
    /\ clock = 0
    /\ last = NoCall

\* the calls that drive the derived service set
NextDrivers ==
    \/ CallUpdateWealth
    \/ CallUpdatePopulation
    \/ CallSetDerelict

NextLocation ==
    \/ CallAddService
    \/ CallRemoveService
    \/ CallUpdateWealth
    \/ CallUpdatePopulation
    \/ CallSetDerelict

SpecLocation == InitLocation /\ [][NextLocation]_vars

SpecDrivers == InitLocation /\ [][NextDrivers]_vars

(***************************************************************************)
(* DynamicNPC.  An Optional field is <<>> for None and <<v>> for a value;  *)
(* datetimes and timedeltas are whole seconds, clock is datetime.now().    *)
(***************************************************************************)
NpcTrackedFields == {"is_alive", "hp", "alignment", "current_location", "destination_location"}

\* Python's truth value of an Optional[int] or Optional[timedelta]: None and 0 are false
Truthy(optional) == IF optional = <<>> THEN FALSE ELSE optional[1] # 0

\* Python's truth value of an Optional[datetime]: only None is false
TruthyTime(optional) == optional # <<>>

NewDynamicNPC ==
    [ is_alive             |-> TRUE,
      hp                   |-> DefaultHp,
      alignment            |-> "neutral",
      current_location     |-> <<>>,
      destination_location |-> <<>>,
      travel_start_time    |-> <<>>,
      travel_duration      |-> <<>>,
      callsign             |-> "Trader-100",
      ship_name            |-> "SS ",
      ship_hull            |-> DefaultNpcHull,
      max_ship_hull        |-> DefaultNpcHull,
      ship_fuel            |-> DefaultNpcFuel,
      max_ship_fuel        |-> DefaultNpcFuel,
      ai_behavior          |-> "trader",
      behavior_state       |-> [patrol_index |-> <<>>, visited_locations |-> <<>>],
      is_dirty             |-> FALSE ]

SetNpc(s, name, value) == SetField(s, NpcTrackedFields, name, value)

NpcTakeDamage(s, damage) ==
    IF ~s.c.is_alive
    THEN [s |-> s, ret |-> FALSE]
    ELSE LET s1 == SetNpc(s, "hp", Max(0, s.c.hp - damage))
             s2 == IF s1.c.hp <= 0
                   THEN PublishEvent(SetNpc(s1, "is_alive", FALSE), "npc_died", <<>>)
                   ELSE s1
         IN  [s |-> s2, ret |-> TRUE]

\* the arrival of update_position
Arrive(s) ==
    LET old_location == s.c.current_location
        s1 == SetNpc(s, "current_location", s.c.destination_location)
        s2 == SetNpc(s1, "destination_location", <<>>)
        s3 == SetNpc(s2, "travel_start_time", <<>>)
        s4 == SetNpc(s3, "travel_duration", <<>>)
    IN  PublishEvent(s4, "npc_arrived",
            [from_location |-> old_location, to_location |-> s4.c.current_location])

\* an arrival that forgets to clear the duration
UpdatePositionKeepsDuration(s, current_time) ==
    IF ~s.c.is_alive \/ ~Truthy(s.c.destination_location)
    THEN [s |-> s, ret |-> FALSE]
    ELSE IF ~TruthyTime(s.c.travel_start_time) \/ ~Truthy(s.c.travel_duration)
         THEN [s |-> s, ret |-> FALSE]
         ELSE IF current_time - s.c.travel_start_time[1] >= s.c.travel_duration[1]
              THEN [s |-> SetNpc(Arrive(s), "travel_duration", s.c.travel_duration),
                    ret |-> TRUE]
              ELSE [s |-> s, ret |-> FALSE]

UpdatePosition(s, current_time) ==
    IF ~s.c.is_alive \/ ~Truthy(s.c.destination_location)
    THEN [s |-> s, ret |-> FALSE]
    ELSE IF ~TruthyTime(s.c.travel_start_time) \/ ~Truthy(s.c.travel_duration)
         THEN [s |-> s, ret |-> FALSE]
         ELSE IF current_time - s.c.travel_start_time[1] >= s.c.travel_duration[1]
              THEN [s |-> Arrive(s), ret |-> TRUE]
              ELSE [s |-> s, ret |-> FALSE]

\* int(travel_time.total_seconds() / 60)
FuelCost(travel_time) == TruncDiv(travel_time, SecondsPerFuel)

StartTravel(s, destination_id, travel_time, now) ==
    IF ~s.c.is_alive \/ Truthy(s.c.destination_location)
    THEN [s |-> s, ret |-> FALSE]
    ELSE IF s.c.ship_fuel < MinTravelFuel
         THEN [s |-> s, ret |-> FALSE]
         ELSE LET s1 == SetNpc(s, "destination_location", <<destination_id>>)
                  s2 == SetNpc(s1, "travel_start_time", <<now>>)
                  s3 == SetNpc(s2, "travel_duration", <<travel_time>>)
                  s4 == SetNpc(s3, "ship_fuel",
                               Max(0, s3.c.ship_fuel - FuelCost(travel_time)))
              IN  [s |-> PublishEvent(s4, "npc_departing",
                             [from_location |-> s4.c.current_location,
                              to_location   |-> destination_id,
                              travel_time   |-> travel_time]),
                   ret |-> TRUE]

\* refuel: ship_fuel is no tracked field
NpcRefuel(s, amount) ==
    LET s1 == SetNpc(s, "ship_fuel", Min(s.c.max_ship_fuel, s.c.ship_fuel + amount))
    IN  [s |-> s1, ret |-> s1.c.ship_fuel - s.c.ship_fuel]

\* DynamicNPC.from_dict: the constructor, then one attribute write per key
NpcFromDict(d) ==
    LET s0 == [c |-> NewDynamicNPC, ev |-> <<>>]
        s1 == SetNpc(s0, "current_location", d.current_location)
        s2 == SetNpc(s1, "ship_hull", d.ship_hull)
        s3 == SetNpc(s2, "ship_fuel", d.ship_fuel)
        s4 == SetNpc(s3, "ai_behavior", d.ai_behavior)
    IN  s4

\* [loc for loc in available_locations if loc != self.current_location]
ValidDestinations(c, available_locations) ==
    SelectSeq(available_locations, LAMBDA loc : <<loc>> # c.current_location)

\* random.choice(seq); rnd.choice is the number the generator draws
Choice(seq, rnd) == seq[(rnd.choice % Len(seq)) + 1]

\* timedelta(minutes=random.randint(low, high)) in seconds, at an end of the range
TravelTime(low, high, rnd) == 60 * (IF rnd.minutes = 0 THEN low ELSE high)

\* a behaviour returns None (<<>>) or one action dict
NoAction(s) == [s |-> s, ret |-> <<>>]

RefuelAction(s) ==
    [s |-> s,
     ret |-> <<[action |-> "refuel", amount |-> s.c.max_ship_fuel - s.c.ship_fuel]>>]

RepairAction(s) ==
    [s |-> s,
     ret |-> <<[action |-> "repair", amount |-> s.c.max_ship_hull - s.c.ship_hull]>>]

TravelAction(s, destination, travel_time) ==
    [s |-> s,
     ret |-> <<[action |-> "travel", destination |-> destination,
                duration |-> travel_time]>>]

TraderBehavior(s, available_locations, rnd) ==
    IF s.c.ship_fuel < 20
    THEN RefuelAction(s)
    ELSE IF 2 * s.c.ship_hull < s.c.max_ship_hull
         THEN RepairAction(s)
         ELSE LET valid_destinations == ValidDestinations(s.c, available_locations)
              IN  IF /\ available_locations # <<>>
                     /\ Truthy(s.c.current_location)
                     /\ valid_destinations # <<>>
                  THEN TravelAction(s, Choice(valid_destinations, rnd),
                                    TravelTime(5, 30, rnd))
                  ELSE NoAction(s)

PatrolBehavior(s, available_locations, rnd) ==
    LET s1 == IF s.c.behavior_state.patrol_index = <<>>
              THEN [s EXCEPT !.c.behavior_state.patrol_index = <<0>>]
              ELSE s
    IN  IF s1.c.ship_fuel < 30
        THEN RefuelAction(s1)
        ELSE LET patrol_index == s1.c.behavior_state.patrol_index[1]
                 valid_locations == ValidDestinations(s1.c, available_locations)
             IN  IF /\ available_locations # <<>>
                    /\ Truthy(s1.c.current_location)
                    /\ valid_locations # <<>>
                 THEN TravelAction(
                          [s1 EXCEPT !.c.behavior_state.patrol_index =
                                         <<(patrol_index + 1) % Len(valid_locations)>>],
                          valid_locations[(patrol_index % Len(valid_locations)) + 1],
                          TravelTime(10, 20, rnd))
                 ELSE NoAction(s1)

PirateBehavior(s, available_locations, rnd) ==
    IF 10 * s.c.ship_hull < 7 * s.c.max_ship_hull
    THEN RepairAction(s)
    ELSE IF s.c.ship_fuel < 40
         THEN RefuelAction(s)
         ELSE LET valid_destinations == ValidDestinations(s.c, available_locations)
              IN  IF /\ available_locations # <<>>
                     /\ Truthy(s.c.current_location)
                     /\ valid_destinations # <<>>
                  THEN TravelAction(s, Choice(valid_destinations, rnd),
                                    TravelTime(3, 15, rnd))
                  ELSE NoAction(s)

ExplorerBehavior(s, available_locations, rnd) ==
    LET s1 == IF s.c.behavior_state.visited_locations = <<>>
              THEN [s EXCEPT !.c.behavior_state.visited_locations = <<{}>>]
              ELSE s
        s2 == IF Truthy(s1.c.current_location)
              THEN [s1 EXCEPT !.c.behavior_state.visited_locations =
                                  <<@[1] \cup {s1.c.current_location[1]}>>]
              ELSE s1
        visited == s2.c.behavior_state.visited_locations[1]
    IN  IF s2.c.ship_fuel < 50
        THEN RefuelAction(s2)
        ELSE IF available_locations # <<>> /\ Truthy(s2.c.current_location)
             THEN LET unvisited ==
                          SelectSeq(available_locations,
                                    LAMBDA loc : /\ loc \notin visited
                                                 /\ <<loc>> # s2.c.current_location)
                      valid_destinations == ValidDestinations(s2.c, available_locations)
                  IN  IF unvisited # <<>>
                      THEN TravelAction(s2, Choice(unvisited, rnd),
                                        TravelTime(15, 45, rnd))
                      ELSE IF valid_destinations # <<>>
                           THEN TravelAction(s2, Choice(valid_destinations, rnd),
                                             TravelTime(15, 45, rnd))
                           ELSE NoAction(s2)
             ELSE NoAction(s2)

ExecuteAiBehavior(s, available_locations, current_time, rnd) ==
    IF ~s.c.is_alive
    THEN NoAction(s)
    ELSE LET s1 == UpdatePosition(s, current_time).s
             behavior == s1.c.ai_behavior
         IN  IF Truthy(s1.c.destination_location)
             THEN NoAction(s1)
             ELSE CASE behavior = "trader" -> TraderBehavior(s1, available_locations, rnd)
                    [] behavior = "patrol" -> PatrolBehavior(s1, available_locations, rnd)
                    [] behavior = "pirate" -> PirateBehavior(s1, available_locations, rnd)
                    [] behavior = "explorer" ->
                           ExplorerBehavior(s1, available_locations, rnd)
                    [] OTHER -> NoAction(s1)

BeginNpc == [c |-> npc, ev |-> <<>>]

\* a call on the NPC returns; at is the time of the call
NpcReturns(op, args, r) ==
    /\ npc' = r.s.c
    /\ last' = [op |-> op, args |-> args, pre |-> npc, ret |-> r.ret, ev |-> r.s.ev,
                at |-> clock]
    /\ UNCHANGED <<coll, heap, charVars, chanVars, histVars, ship, location, clock>>

CallNpcTakeDamage ==
    \E damage \in NpcDamage :
        NpcReturns("take_damage", <<damage>>, NpcTakeDamage(BeginNpc, damage))

CallUpdatePosition ==
    \E current_time \in PollTimes :
        NpcReturns("update_position", <<current_time>>,
                   UpdatePosition(BeginNpc, current_time))

CallStartTravel ==
    \E destination_id \in DestinationIds : \E travel_time \in TravelTimes :
        NpcReturns("start_travel", <<destination_id, travel_time>>,
                   StartTravel(BeginNpc, destination_id, travel_time, clock))

\* time passes between two calls
Tick ==
    /\ clock + TickSeconds <= MaxClock
    /\ clock' = clock + TickSeconds
    /\ UNCHANGED <<coll, heap, charVars, chanVars, histVars, ship, location, npc, last>>

\* BaseModel.validate, which BaseNPC does not override: its body is pass, it
\* returns None (<<>>)
BaseValidate(c) == <<>>

\* Python's truth value of an Optional[bool]
TruthyBool(optional) == IF optional = <<>> THEN FALSE ELSE optional[1]

NpcValidate(c) ==
    IF ~TruthyBool(BaseValidate(c))
    THEN FALSE
    ELSE IF c.callsign = "" \/ c.ship_name = ""
         THEN FALSE
         ELSE IF c.ship_fuel < 0 \/ c.ship_fuel > c.max_ship_fuel
              THEN FALSE
              ELSE IF c.ship_hull < 0 \/ c.ship_hull > c.max_ship_hull
                   THEN FALSE
                   ELSE TRUE

CallNpcValidate ==
    NpcReturns("validate", <<>>, [s |-> BeginNpc, ret |-> NpcValidate(npc)])

\* game code assigning the attributes validate reads
CallNpcSetAttr ==
    \E name \in DOMAIN NpcFieldValues : \E value \in NpcFieldValues[name] :
        NpcReturns("__setattr__", <<name, value>>,
                   [s |-> SetNpc(BeginNpc, name, value), ret |-> "None"])

NextValidate ==
    \/ CallNpcValidate
    \/ CallNpcSetAttr

InitNpc ==
    /\ InitChar
    /\ char = NewCharacter(DefaultCredits)
    /\ InitChan
    /\ NewHistory
    /\ ship = <<>>
    /\ location = <<>>
    /\ npc = NewDynamicNPC
    /\ coll = <<>>
    /\ heap = <<>>
    /\ clock = 0
    /\ last = NoCall

NextNpc ==
    \/ CallNpcTakeDamage
    \/ CallUpdatePosition
    \/ CallStartTravel
    \/ Tick

SpecNpc == InitNpc /\ [][NextNpc]_vars

SpecValidate == InitNpc /\ [][NextValidate]_vars

\* NPCs loaded from saved records, polled by the game loop
SavedNpcs ==
    [ai_behavior : Behaviors, current_location : SavedLocations,
     ship_hull : SavedHull, ship_fuel : SavedFuel]

CallExecuteAiBehavior ==
    \E available_locations \in CandidateLists : \E current_time \in PollTimes :
        \E rnd \in RandomDraws :
            NpcReturns("execute_ai_behavior", <<available_locations, current_time>>,
                       ExecuteAiBehavior(BeginNpc, available_locations, current_time, rnd))

InitAi ==
    /\ InitChar
    /\ char = NewCharacter(DefaultCredits)
    /\ InitChan
    /\ NewHistory
    /\ ship = <<>>
    /\ location = <<>>
    /\ npc \in {NpcFromDict(d).c : d \in SavedNpcs}
    /\ coll = <<>>
    /\ heap = <<>>
    /\ clock = 0
    /\ last = NoCall

NextAi ==
    \/ CallExecuteAiBehavior
    \/ CallStartTravel
    \/ CallNpcTakeDamage

SpecAi == InitAi /\ [][NextAi]_vars

\* A patrol NPC driven by a loop that polls it over the fixed route and always
\* carries out what the behaviour proposes. Time is counted from the departure
\* (start_travel reads the clock, which stands still here); a poll comes at one
\* of PollTimes after it.
Proposed(action) ==
    /\ last.op = "execute_ai_behavior"
    /\ last.ret # <<>>
    /\ last.ret[1].action = action

PatrolPollAt(current_time) ==
    /\ ~(last.op = "execute_ai_behavior" /\ last.ret # <<>>)
    /\ \E rnd \in RandomDraws :
           NpcReturns("execute_ai_behavior", <<PatrolRoute, current_time>>,
                      ExecuteAiBehavior(BeginNpc, PatrolRoute, current_time, rnd))

PatrolPoll == \E current_time \in PollTimes : PatrolPollAt(current_time)

TakeTravel ==
    /\ Proposed("travel")
    /\ NpcReturns("start_travel", <<last.ret[1].destination, last.ret[1].duration>>,
                  StartTravel(BeginNpc, last.ret[1].destination, last.ret[1].duration,
                              clock))

TakeRefuel ==
    /\ Proposed("refuel")
    /\ NpcReturns("refuel", <<last.ret[1].amount>>,
                  NpcRefuel(BeginNpc, last.ret[1].amount))

InitPatrol ==
    /\ InitAi
    /\ npc.ai_behavior = "patrol"
    /\ npc.current_location = <<PatrolRoute[1]>>

NextPatrol ==
    \/ PatrolPoll
    \/ TakeTravel
    \/ TakeRefuel

\* the loop keeps running, and the poll after the end of a trip keeps coming
SpecPatrol ==
    /\ InitPatrol
    /\ [][NextPatrol]_vars
    /\ WF_vars(NextPatrol)
    /\ \A current_time \in PollTimes : WF_vars(PatrolPollAt(current_time))

(***************************************************************************)
(* ModelCollection, and the id of the entities offered to it.  An entity   *)
(* is [id, is_dirty] (what the id property reads and writes); _models is   *)
(* the dict as a function of the key, <<>> for a key that is absent;       *)
(* history is the collection's _event_history.                             *)
(***************************************************************************)
\* BaseModel.__init__(model_id)
NewEntity(model_id) == [id |-> model_id, is_dirty |-> FALSE]

NewCollection == [k \in ModelIds |-> <<>>]

\* the id setter
SetId(entity, value) == [entity EXCEPT !.id = <<value>>, !.is_dirty = TRUE]

CollectionPublish(s, type, data) ==
    [s EXCEPT !.ev = Append(@, [type |-> type, data |-> data]),
              !.c.history = RecordEvent(@, [type |-> type, data |-> data])]

CollectionGet(c, model_id) == c.models[model_id]

CollectionAdd(s, model) ==
    IF s.c.entities[model].id = <<>>
    THEN [s |-> s, ret |-> "ValueError"]
    ELSE [s |-> CollectionPublish(
                    [s EXCEPT !.c.models[s.c.entities[model].id[1]] = <<model>>],
                    "model_added", [model |-> model]),
          ret |-> "None"]

CollectionRemove(s, model_id) ==
    IF s.c.models[model_id] # <<>>
    THEN [s |-> CollectionPublish([s EXCEPT !.c.models[model_id] = <<>>],
                                  "model_removed", [model |-> s.c.models[model_id][1]]),
          ret |-> s.c.models[model_id]]
    ELSE [s |-> s, ret |-> <<>>]

CollectionClear(s) ==
    [s |-> CollectionPublish([s EXCEPT !.c.models = NewCollection],
                             "collection_cleared", <<>>),
     ret |-> "None"]

BeginCollection == [c |-> coll, ev |-> <<>>]

CollectionReturns(op, args, r) ==
    /\ Len(r.s.c.history) <= MaxCollectionEvents
    /\ coll' = r.s.c
    /\ last' = [op |-> op, args |-> args, pre |-> coll, ret |-> r.ret, ev |-> r.s.ev]
    /\ UNCHANGED <<heap, charVars, chanVars, histVars, ship, location, npc, clock>>

\* game code assigning entity.id
CallSetId ==
    \E entity \in Entities : \E value \in ModelIds :
        CollectionReturns("id", <<entity, value>>,
            [s |-> [BeginCollection EXCEPT !.c.entities[entity] = SetId(@, value)],
             ret |-> "None"])

CallCollectionAdd ==
    \E model \in Entities :
        CollectionReturns("add", <<model>>, CollectionAdd(BeginCollection, model))

CallCollectionRemove ==
    \E model_id \in ModelIds :
        CollectionReturns("remove", <<model_id>>, CollectionRemove(BeginCollection, model_id))

CallCollectionGet ==
    \E model_id \in ModelIds :
        CollectionReturns("get", <<model_id>>,
            [s |-> BeginCollection, ret |-> CollectionGet(coll, model_id)])

CallCollectionClear ==
    CollectionReturns("clear", <<>>, CollectionClear(BeginCollection))

\* an empty collection, and entities constructed with or without an id
InitCollection ==
    /\ InitChar
    /\ char = NewCharacter(DefaultCredits)
    /\ InitChan
    /\ NewHistory
    /\ ship = <<>>
    /\ location = <<>>
    /\ npc = <<>>
    /\ coll \in {[entities |-> entities, models |-> NewCollection, history |-> <<>>] :
                    entities \in [Entities -> {NewEntity(<<>>)}
                                              \cup {NewEntity(<<i>>) : i \in ModelIds}]}
    /\ heap = <<>>
    /\ clock = 0
    /\ last = NoCall

NextCollection ==
    \/ CallSetId
    \/ CallCollectionAdd
    \/ CallCollectionRemove
    \/ CallCollectionGet
    \/ CallCollectionClear

SpecCollection == InitCollection /\ [][NextCollection]_vars

(***************************************************************************)
(* Item records shared between entities.  An InventoryItem is an object:   *)
(* add_item and add_cargo append the caller's object itself to the list,   *)
(* and stacking and removal write its quantity in place.  heap.items maps  *)
(* an object to its fields, heap.lists an owner (a character's _inventory  *)
(* or the ship's _cargo_bay) to the objects its list refers to.            *)
(***************************************************************************)
\* the InventoryItem objects the game has created
ItemObjects ==
    [ o1 |-> [item_id |-> "ore", quantity |-> 1, weight |-> 20],
      o2 |-> [item_id |-> "ore", quantity |-> 2, weight |-> 20] ]

\* two characters' inventories and a ship's cargo bay
Owners == {"alice", "bob", "cargo_bay"}

\* max_inventory_weight of a character, cargo_capacity of a shuttle
Capacity(owner) ==
    IF owner = "cargo_bay" THEN ShipConfigs["shuttle"].cargo_capacity
    ELSE DefaultMaxInventoryWeight

\* the objects of a list, as the fields they have now
Held(h, owner) == [i \in 1..Len(h.lists[owner]) |-> h.items[h.lists[owner][i]]]

\* add_item / add_cargo with the object item
AddItemObject(s, owner, item) ==
    LET list == s.c.lists[owner]
        fields == s.c.items[item]
    IN  IF SumWeights(Held(s.c, owner)) + fields.weight > Capacity(owner)
        THEN [s |-> s, ret |-> FALSE]
        ELSE LET i == FirstIndex(list,
                          LAMBDA o : s.c.items[o].item_id = fields.item_id)
             IN  IF i # 0
                 THEN LET total == s.c.items[list[i]].quantity + fields.quantity
                          s1 == [s EXCEPT !.c.items[list[i]].quantity = total]
                      IN  [s |-> PublishEvent(s1, "item_added",
                                    [item |-> fields.item_id,
                                     quantity |-> fields.quantity]),
                           ret |-> TRUE]
                 ELSE LET s1 == [s EXCEPT !.c.lists[owner] = Append(@, item)]
                      IN  [s |-> PublishEvent(s1, "item_added",
                                    [item |-> fields.item_id,
                                     quantity |-> fields.quantity]),
                           ret |-> TRUE]

\* remove_item / remove_cargo: the loop passes over a stack that holds less
RemoveItemObject(s, owner, item_id, quantity) ==
    LET list == s.c.lists[owner]
        i == FirstIndex(list, LAMBDA o : /\ s.c.items[o].item_id = item_id
                                         /\ s.c.items[o].quantity >= quantity)
    IN  IF i = 0
        THEN [s |-> s, ret |-> FALSE]
        ELSE IF s.c.items[list[i]].quantity > quantity
             THEN LET s1 == [s EXCEPT !.c.items[list[i]].quantity = @ - quantity]
                  IN  [s |-> PublishEvent(s1, "item_removed",
                                [item |-> item_id, quantity |-> quantity]),
                       ret |-> TRUE]
             ELSE LET s1 == [s EXCEPT !.c.lists[owner] = RemoveAt(@, i)]
                  IN  [s |-> PublishEvent(s1, "item_removed",
                                [item |-> item_id, quantity |-> quantity]),
                       ret |-> TRUE]

BeginShared == [c |-> heap, ev |-> <<>>]

SharedReturns(op, args, r) ==
    /\ \A item \in DOMAIN ItemObjects : r.s.c.items[item].quantity <= MaxQuantity
    /\ heap' = r.s.c
    /\ last' = [op |-> op, args |-> args, pre |-> heap, ret |-> r.ret, ev |-> r.s.ev]
    /\ UNCHANGED <<coll, charVars, chanVars, histVars, ship, location, npc, clock>>

\* owner.add_item(item) or ship.add_cargo(item) with an object the game holds
CallAddItemObject ==
    \E owner \in Owners : \E item \in DOMAIN ItemObjects :
        SharedReturns("add_item", <<owner, item>>, AddItemObject(BeginShared, owner, item))

CallRemoveItemObject ==
    \E owner \in Owners : \E item_id \in ItemIds : \E quantity \in RemoveQuantities :
        SharedReturns("remove_item", <<owner, item_id, quantity>>,
                      RemoveItemObject(BeginShared, owner, item_id, quantity))

\* the objects as constructed, and every list empty
InitShared ==
    /\ InitChar
    /\ char = NewCharacter(DefaultCredits)
    /\ InitChan
    /\ NewHistory
    /\ ship = <<>>
    /\ location = <<>>
    /\ npc = <<>>
    /\ coll = <<>>
    /\ heap = [items |-> ItemObjects, lists |-> [owner \in Owners |-> <<>>]]
    /\ clock = 0
    /\ last = NoCall

NextShared ==
    \/ CallAddItemObject
    \/ CallRemoveItemObject

SpecShared == InitShared /\ [][NextShared]_vars

\* no Ship, Location, DynamicNPC or ModelCollection is in use
NoEntities ==
    /\ ship = <<>>
    /\ location = <<>>
    /\ npc = <<>>
    /\ coll = <<>>
    /\ heap = <<>>
    /\ clock = 0
    /\ last = NoCall

Init == InitChar /\ InitChan /\ NewHistory /\ NoEntities

\* a Character constructed with the defaults
InitNew == Init /\ char = NewCharacter(DefaultCredits)

\* a Character constructed with the defaults, after the publishes of InitHist
InitPublished ==
    /\ InitChar
    /\ char = NewCharacter(DefaultCredits)
    /\ InitChan
    /\ InitHist
    /\ NoEntities

NextChar ==
    \/ CallMoveTo
    \/ CallAddCredits
    \/ CallTakeDamage
    \/ CallHeal
    \/ CallRespawn
    \/ CallMarkClean

\* damage with a damage_taken handler that strikes back
NextObserved ==
    \/ CallTakeDamageObserved
    \/ CallHeal
    \/ CallRespawn
    \/ CallAddCredits

\* karma, alignment and experience
NextProgress ==
    \/ CallUpdateAlignment
    \/ CallAddExperience
    \/ CallMarkClean

NextTrack ==
    \/ CallSetAttr
    \/ CallMarkClean

NextInv ==
    \/ CallAddItem
    \/ CallRemoveItem

SpecInv == Init /\ [][NextInv]_vars

SpecChan == InitNew /\ [][NextChan]_vars

SpecChar == Init /\ [][NextChar]_vars

SpecObserved == Init /\ [][NextObserved]_vars

SpecProgress == InitNew /\ [][NextProgress]_vars

SpecHist == InitPublished /\ [][NextHist]_vars

SpecTrack == Init /\ [][NextTrack]_vars

(***************************************************************************)
(* Properties.                                                             *)
(***************************************************************************)
EventsOfType(type) == SelectSeq(emitted, LAMBDA e : e.type = type)

\* C1: a write of a tracked field with a value different from the current one
\* stores it, sets is_dirty and publishes exactly one '<field>_changed' event
\* (and nothing else); a write of the current value changes nothing, is_dirty
\* included, and publishes no event.
C1_TrackedWrite ==
    (call.op = "__setattr__" /\ call.args[1] \in TrackedFields) =>
        LET name == call.args[1]
            value == call.args[2]
        IN  IF pre[name] # value
            THEN /\ char = [pre EXCEPT ![name] = value, !.is_dirty = TRUE]
                 /\ Len(emitted) = 1
                 /\ emitted[1].type = ChangedEvent(name)
            ELSE /\ char = pre
                 /\ emitted = <<>>

C1_Witness ==
    /\ call.op = "__setattr__"
    /\ call.args[1] = "karma"
    /\ pre.karma # call.args[2]
    /\ ~pre.is_dirty
    /\ char.is_dirty
    /\ Len(emitted) = 1

\* C6: take_damage(d), d > 0, on an alive character leaves
\* ship_hull = max(0, hull_before - d); at hull 0 the character is dead, having
\* died once in the call (one is_alive change, one character_died event) with
\* death_count one higher; above 0 it stays alive with death_count unchanged.
C6_TakeDamage ==
    (call.op = "take_damage" /\ pre.is_alive /\ call.args[1] > 0) =>
        /\ char.ship_hull = Max(0, pre.ship_hull - call.args[1])
        /\ ret = TRUE
        /\ IF char.ship_hull = 0
           THEN /\ ~char.is_alive
                /\ char.death_count = pre.death_count + 1
                /\ Len(EventsOfType("is_alive_changed")) = 1
                /\ Len(EventsOfType("character_died")) = 1
           ELSE /\ char.is_alive
                /\ char.death_count = pre.death_count
                /\ EventsOfType("character_died") = <<>>

C6_Witness ==
    /\ call.op = "take_damage"
    /\ pre.is_alive
    /\ pre.ship_hull > 0
    /\ pre.ship_hull < call.args[1]
    /\ ~char.is_alive
    /\ char.death_count = 2

\* C7: respawn(l) on a dead character sets is_alive, moves it to l, sets
\* ship_hull to floor(max_ship_hull / 2), ship_fuel to 25 and location_status
\* to docked and leaves death_count (and every other field but is_dirty) as it
\* was; on an alive character it changes nothing and publishes nothing.
C7_Respawn ==
    (call.op = "respawn") =>
        IF ~pre.is_alive
        THEN /\ char.is_alive
             /\ char.current_location = call.args[1]
             /\ 2 * char.ship_hull <= pre.max_ship_hull
             /\ pre.max_ship_hull < 2 * char.ship_hull + 2
             /\ char.ship_fuel = 25
             /\ char.location_status = "docked"
             /\ char.death_count = pre.death_count
             /\ char.credits = pre.credits
             /\ char.max_ship_hull = pre.max_ship_hull
             /\ Len(EventsOfType("character_respawned")) = 1
        ELSE /\ char = pre
             /\ emitted = <<>>

C7_Witness ==
    /\ call.op = "respawn"
    /\ ~pre.is_alive
    /\ pre.location_status = "traveling"
    /\ pre.max_ship_hull = 75
    /\ char.ship_hull = 37
    /\ char.is_alive

\* C8: on a dead character take_damage and move_to return False and heal
\* returns 0, each changing no field and publishing no event; a dead character
\* has ship_hull = 0 and ship_fuel = 0, and only respawn makes a dead character
\* alive again.
C8_DeadIsInert ==
    /\ (~pre.is_alive /\ call.op \in {"take_damage", "move_to", "heal"}) =>
            /\ char = pre
            /\ emitted = <<>>
            /\ (call.op = "heal" => ret = 0)
            /\ (call.op # "heal" => ret = FALSE)
    /\ ~char.is_alive => (char.ship_hull = 0 /\ char.ship_fuel = 0)
    /\ (~pre.is_alive /\ char.is_alive) => call.op = "respawn"

C8_Witness ==
    /\ ~pre.is_alive
    /\ call.op = "heal"
    /\ ret = 0
    /\ char.death_count = 1

\* C9: add_credits(a) with a < 0 and credits + a < 0 returns False, leaves
\* the character as it was and publishes nothing; credits >= 0 after every
\* sequence of add_credits, take_damage (death and its penalty included) and
\* respawn.
C9_Credits ==
    /\ (call.op = "add_credits" /\ call.args[1] < 0 /\ pre.credits + call.args[1] < 0) =>
            /\ ret = FALSE
            /\ char = pre
            /\ emitted = <<>>
    /\ char.credits >= 0

C9_Witness ==
    /\ call.op = "add_credits"
    /\ call.args[1] = -1200
    /\ pre.credits = 1000
    /\ char.credits = 1000
    /\ ret = FALSE

\* C10: the inventory's total weight (weight * quantity over the stacks) never
\* exceeds max_inventory_weight, and an add_item that would take it above
\* returns False and leaves the inventory unchanged.
C10_WeightWithinBudget ==
    /\ GetInventoryWeight(char) <= char.max_inventory_weight
    /\ (/\ call.op = "add_item"
        /\ GetInventoryWeight(pre) + call.args[1].weight * call.args[1].quantity
               > pre.max_inventory_weight) =>
            (ret = FALSE /\ char = pre)

\* C2: once every publish_event in progress has returned, a handler that was
\* unsubscribed from a type by a handler during a delivery of that type (and
\* not subscribed again) is not registered for the type.
C2_UnsubscribedInDelivery ==
    stack = <<>> =>
        \A q \in unsubIn : q[2] \notin Range(Registered(q[1]))

\* C3: the handlers one publish_event calls are those registered when its
\* delivery began (it never calls a registration appended later), and a
\* handler subscribed to the type during the delivery is registered for the
\* type once the publish has returned.
C3_SubscribedInDelivery ==
    /\ \A i \in 1..Len(stack) : stack[i].running => stack[i].idx <= stack[i].n0
    /\ stack = <<>> =>
           \A q \in subIn : q[2] \in Range(Registered(q[1]))

\* C4: a publish_event during which no handler subscribes, unsubscribes or is
\* collected calls exactly the live handlers registered for its type, once
\* each, in subscription order, whether or not some of them fail; no failure
\* reaches the caller; and a write of credits that has returned has stored the
\* value and, if it changed it, left is_dirty set.
C4_Delivery ==
    /\ done # <<>> =>
           /\ ~done[1].raised
           /\ done[1].quiet => done[1].called = done[1].live
    /\ (stack = <<>> /\ call.op = "__setattr__") =>
           /\ char.credits = call.args[2]
           /\ pre.credits # call.args[2] => char.is_dirty

C4_Witness ==
    /\ stack = <<>>
    /\ call.op = "__setattr__"
    /\ pre.credits # call.args[2]
    /\ done # <<>>
    /\ done[1].type = "credits_changed"
    /\ done[1].quiet
    /\ done[1].called = <<"h2", "h1">>
    /\ done[1].failed = {1}
    /\ Registered("custom") # <<>>

\* the last k of events, in order
Recent(events, k) ==
    SubSeq(events, Len(events) - Min(Len(events), k) + 1, Len(events))

\* C5: the history holds at most 100 events, the most recent min(n, 100) of the
\* n published, in publication order; the list get_event_history returned was
\* the history then (of the type asked for) and later publishes do not change it
C5_History ==
    /\ Len(history) <= MaxHistorySize
    /\ history = Recent(published, MaxHistorySize)
    /\ snap # <<>> =>
           LET then == Recent(SubSeq(published, 1, snap[1].at), MaxHistorySize)
           IN  /\ snap[1].list = snap[1].returned
               /\ snap[1].returned =
                      IF snap[1].event_type = NoFilter
                      THEN then
                      ELSE SelectSeq(then, LAMBDA e : e.type = snap[1].event_type)

\* more than 100 events published of both types, and a list returned before the
\* last evictions still begins with an event the history has dropped since
C5_Witness ==
    /\ Len(published) > MaxHistorySize
    /\ Len(history) = MaxHistorySize
    /\ \E i \in 1..Len(history) : history[i].type = "credits_changed"
    /\ snap # <<>>
    /\ snap[1].event_type = NoFilter
    /\ snap[1].at < Len(published)
    /\ snap[1].returned # <<>>
    /\ snap[1].returned[1].data < history[1].data

LastEvents(type) == SelectSeq(last.ev, LAMBDA e : e.type = type)

InstalledLevel(upgrade_type, default) ==
    LET levels == {ship.upgrades[i].level :
                      i \in {j \in 1..Len(ship.upgrades) :
                                ship.upgrades[j].upgrade_type = upgrade_type}}
    IN  IF levels = {} THEN default
        ELSE CHOOSE m \in levels : \A l \in levels : l <= m

C16_Construction ==
    last.op = "Ship" =>
        /\ last.ret.raised = "None"
        /\ last.args[1] = "freighter" =>
               /\ last.ret.ship.cargo_capacity = 200
               /\ last.ret.ship.fuel_capacity = 150
               /\ last.ret.ship.max_hull_points = 150
        /\ last.ret.ship.hull_points = last.ret.ship.max_hull_points
        /\ last.ret.ship.fuel = last.ret.ship.fuel_capacity
        /\ last.ret.ship.upgrades = <<>>
        /\ last.ret.ship.power_used = 0
        /\ last.ret.ship.is_active

(***************************************************************************)
(* C17: after set_derelict(true) the service set holds nothing but the     *)
(* communications service and the population is 0; after a set_derelict    *)
(* (false) that follows it the service set is the one of a freshly         *)
(* constructed location of the same type and wealth level, for every type  *)
(* and wealth level and also after add_service / remove_service calls.     *)
(***************************************************************************)
C17_DerelictAndBack ==
    /\ (last.op = "set_derelict" /\ last.args = <<TRUE>>) =>
          /\ location.services \subseteq {"comms"}
          /\ location.population = 0
    /\ (/\ last.op = "set_derelict"
        /\ last.args = <<FALSE>>
        /\ last.prior[1] = "set_derelict"
        /\ last.prior[2] = <<TRUE>>) =>
          location.services
              = NewLocation(location.location_type, location.wealth_level,
                            location.population).services

(***************************************************************************)
(* C18: when only update_wealth, update_population and set_derelict are    *)
(* called, the service set is the freshly initialised one for the type and *)
(* wealth level while is_derelict is false, holds no service other than    *)
(* communications while is_derelict is true, and the population is 0 while *)
(* is_derelict is true.                                                    *)
(***************************************************************************)
C18_ServicesDerived ==
    IF location.is_derelict
    THEN /\ location.services \subseteq {"comms"}
         /\ location.population = 0
    ELSE location.services
             = InitialServices(location.location_type, location.wealth_level)

(***************************************************************************)
(* C19: after every sequence of start_travel and update_position calls     *)
(* (any destination id, any duration >= 0, any poll time) the destination  *)
(* of a dynamic NPC is set exactly when its travel start time and its      *)
(* travel duration are both set: the three are all cleared (docked) or all *)
(* set (travelling), never in between.                                     *)
(***************************************************************************)
C19_TravelFieldsTogether ==
    /\ (npc.destination_location # <<>>)
           <=> (npc.travel_start_time # <<>> /\ npc.travel_duration # <<>>)
    /\ \/ /\ npc.destination_location = <<>>
          /\ npc.travel_start_time = <<>>
          /\ npc.travel_duration = <<>>
       \/ /\ npc.destination_location # <<>>
          /\ npc.travel_start_time # <<>>
          /\ npc.travel_duration # <<>>

\* an NPC that travelled to location 5 has arrived and is docked again
C19_Witness ==
    /\ last.op = "update_position"
    /\ last.ret = TRUE
    /\ last.pre.destination_location = <<5>>
    /\ npc.current_location = <<5>>
    /\ npc.destination_location = <<>>
    /\ npc.travel_start_time = <<>>
    /\ npc.travel_duration = <<>>

(***************************************************************************)
(* C20: start_travel succeeds exactly when the NPC is alive, not           *)
(* travelling and has at least 10 fuel; a failed call changes no field and *)
(* publishes no event; a successful one sets destination, start time and   *)
(* duration and takes one unit of fuel per minute, not below 0; while a    *)
(* travel is in progress start_travel fails and replaces nothing.          *)
(***************************************************************************)
C20_StartTravel ==
    last.op = "start_travel" =>
        LET before    == last.pre
            traveling == before.destination_location # <<>>
            allowed   == before.is_alive /\ ~traveling /\ before.ship_fuel >= 10
        IN  /\ last.ret = allowed
            /\ ~last.ret => (npc = before /\ last.ev = <<>>)
            /\ last.ret =>
                  /\ npc.destination_location = <<last.args[1]>>
                  /\ npc.travel_start_time = <<last.at>>
                  /\ npc.travel_duration = <<last.args[2]>>
                  /\ npc.ship_fuel = Max(0, before.ship_fuel - (last.args[2] \div 60))
            /\ traveling =>
                  /\ last.ret = FALSE
                  /\ npc.destination_location = before.destination_location
                  /\ npc.travel_start_time = before.travel_start_time
                  /\ npc.travel_duration = before.travel_duration

(***************************************************************************)
(* C21: an entity whose is_dirty flag is false has no unsaved change:      *)
(* every public operation that changes a value of the to_dict record       *)
(* leaves is_dirty true, and a dirty entity becomes clean only through     *)
(* _mark_clean.                                                            *)
(***************************************************************************)
C21_CleanMeansSaved ==
    /\ (/\ call.op \notin {"__init__", "_mark_clean"}
        /\ [char EXCEPT !.is_dirty = FALSE] # [pre EXCEPT !.is_dirty = FALSE]) =>
          char.is_dirty
    /\ (pre.is_dirty /\ ~char.is_dirty) => call.op = "_mark_clean"

(***************************************************************************)
(* C22: an entity's id is assigned at most once: once the id is not null,  *)
(* no later assignment to id changes its value.                            *)
(***************************************************************************)
C22_IdAssignedOnce ==
    last.op = "id" =>
        \A entity \in Entities :
            last.pre.entities[entity].id # <<>> =>
                coll.entities[entity].id = last.pre.entities[entity].id

(***************************************************************************)
(* C27: ModelCollection.add of an entity whose id is null is rejected and  *)
(* leaves the contents and the event history of the collection unchanged;  *)
(* add of an entity with an id makes get(id) return that entity and emits  *)
(* exactly one model_added event; every entity stored in the collection is *)
(* stored under the key equal to its id.                                   *)
(***************************************************************************)
C27_CollectionAdd ==
    /\ last.op = "add" =>
          LET model == last.args[1]
              id    == last.pre.entities[model].id
          IN  IF id = <<>>
              THEN /\ last.ret = "ValueError"
                   /\ coll = last.pre
                   /\ last.ev = <<>>
              ELSE /\ CollectionGet(coll, id[1]) = <<model>>
                   /\ last.ev = <<[type |-> "model_added", data |-> [model |-> model]]>>
                   /\ coll.history = Append(last.pre.history, last.ev[1])
    /\ \A key \in ModelIds :
          coll.models[key] # <<>> => coll.entities[coll.models[key][1]].id = <<key>>

(***************************************************************************)
(* C23: every event of type '<field>_changed' published for a tracked      *)
(* field carries the data {field, old_value, new_value}: field names the   *)
(* tracked field, old_value is the value before the write and new_value    *)
(* the value now stored; this holds for every alignment_changed event of a *)
(* Character as well.                                                      *)
(***************************************************************************)
C23_ChangedEventData ==
    \A i \in 1..Len(emitted) :
        LET e == emitted[i]
        IN  e.type \in {ChangedEvent(name) : name \in TrackedFields} =>
                /\ DOMAIN e.data = {"field", "old_value", "new_value"}
                /\ e.data.field \in TrackedFields
                /\ e.type = ChangedEvent(e.data.field)
                /\ e.data.old_value = pre[e.data.field]
                /\ e.data.new_value = char[e.data.field]

(***************************************************************************)
(* C24: after every update_alignment(change) call karma has grown by       *)
(* exactly change and alignment is the category of the new karma (karma >= *)
(* 50 loyal, karma <= -50 bandit, otherwise neutral); an alignment_changed *)
(* event is published during the call exactly when the category differs    *)
(* from the category before the call.                                      *)
(***************************************************************************)
C24_UpdateAlignment ==
    call.op = "update_alignment" =>
        LET Category(karma) == IF karma >= 50 THEN "loyal"
                               ELSE IF karma <= -50 THEN "bandit"
                               ELSE "neutral"
        IN  /\ char.karma = pre.karma + call.args[1]
            /\ char.alignment = Category(char.karma)
            /\ (EventsOfType("alignment_changed") # <<>>)
                   <=> (Category(char.karma) # Category(pre.karma))

\* karma reaches the loyal threshold exactly and the alignment changes
C24_Witness ==
    /\ call.op = "update_alignment"
    /\ call.args = <<25>>
    /\ pre.karma = 25
    /\ pre.alignment = "neutral"
    /\ char.karma = 50
    /\ char.alignment = "loyal"
    /\ EventsOfType("alignment_changed") # <<>>

(***************************************************************************)
(* C25: after every add_experience(amount >= 0) call the remaining         *)
(* experience is below level * 1000, whatever the amount added in one      *)
(* call: the level rises (with the five stats and a level_up event) until  *)
(* the excess is carried over.                                             *)
(***************************************************************************)
C25_ExperienceBelowNextLevel ==
    call.op = "add_experience" => char.experience < char.level * 1000

\* whether seq is the beginning of other
IsPrefix(seq, other) ==
    Len(seq) <= Len(other) /\ SubSeq(other, 1, Len(seq)) = seq

(***************************************************************************)
(* C26: when a subscribed handler has been collected before a publish of   *)
(* its event type, the publish completes without error, calls nothing for  *)
(* the dead registration, and afterwards the dead registration is absent   *)
(* from the list of the type; the registrations of the live handlers are   *)
(* kept, in their original order.                                          *)
(***************************************************************************)
C26_DeadRegistrationDropped ==
    done # <<>> =>
        /\ ~done[1].raised
        /\ Range(done[1].called) \cap done[1].dead0 = {}
        /\ Range(Registered(done[1].type)) \cap done[1].dead0 = {}
        /\ IsPrefix(Live(done[1].list0), Live(Registered(done[1].type)))
        /\ done[1].quiet => Registered(done[1].type) = Live(done[1].list0)

\* a publish over <<dead h1, live h2>> has returned
C26_Witness ==
    /\ done # <<>>
    /\ stack = <<>>
    /\ done[1].list0 = <<"h1", "h2">>
    /\ done[1].dead0 = {"h1"}
    /\ done[1].called = <<"h2">>
    /\ Registered(done[1].type) = <<"h2">>

(***************************************************************************)
(* C28: validate() of a dynamic NPC returns a boolean, true exactly when   *)
(* callsign and ship_name are non-empty, 0 <= ship_fuel <= max_ship_fuel   *)
(* and 0 <= ship_hull <= max_ship_hull (a freshly constructed dynamic NPC  *)
(* validates), and false when one of these is violated.                    *)
(***************************************************************************)
C28_Validate ==
    last.op = "validate" =>
        /\ last.ret \in BOOLEAN
        /\ last.ret <=> /\ npc.callsign # ""
                        /\ npc.ship_name # ""
                        /\ 0 <= npc.ship_fuel /\ npc.ship_fuel <= npc.max_ship_fuel
                        /\ 0 <= npc.ship_hull /\ npc.ship_hull <= npc.max_ship_hull

(***************************************************************************)
(* C29: every travel a living dynamic NPC has started ends in arrival once *)
(* it is polled late enough: when update_position is called with a time at *)
(* or after start + duration (any destination id, any duration >= 0, zero  *)
(* included), the NPC is docked at the destination with destination, start *)
(* time and duration cleared.                                              *)
(***************************************************************************)
C29_TravelEnds ==
    (/\ last.op = "update_position"
     /\ last.pre.is_alive
     /\ last.pre.destination_location # <<>>
     /\ last.args[1] >= last.pre.travel_start_time[1] + last.pre.travel_duration[1]) =>
        /\ npc.current_location = last.pre.destination_location
        /\ npc.destination_location = <<>>
        /\ npc.travel_start_time = <<>>
        /\ npc.travel_duration = <<>>

(***************************************************************************)
(* C30: update_position(now) on a travelling NPC with now - start time >=  *)
(* duration sets current_location to the former destination, clears        *)
(* destination, start time and duration and publishes exactly one          *)
(* npc_arrived event; in every other case (docked, or elapsed time below    *)
(* the duration) it changes no field and publishes no event.               *)
(***************************************************************************)
C30_UpdatePosition ==
    last.op = "update_position" =>
        IF /\ last.pre.destination_location # <<>>
           /\ last.args[1] - last.pre.travel_start_time[1] >= last.pre.travel_duration[1]
        THEN /\ npc = [last.pre EXCEPT !.current_location = last.pre.destination_location,
                                       !.destination_location = <<>>,
                                       !.travel_start_time = <<>>,
                                       !.travel_duration = <<>>,
                                       !.is_dirty = TRUE]
             /\ Len(LastEvents("npc_arrived")) = 1
        ELSE /\ npc = last.pre
             /\ last.ev = <<>>

\* the indices of the upgrades of upgrade_type in upgrades
OfCategory(upgrades, upgrade_type) ==
    {i \in 1..Len(upgrades) : upgrades[i].upgrade_type = upgrade_type}

RECURSIVE InstalledPower(_)
InstalledPower(upgrades) ==
    IF upgrades = <<>> THEN 0
    ELSE Head(upgrades).power_requirement + InstalledPower(Tail(upgrades))

C36_DeathsCounted ==
    call.op = "take_damage" =>
        LET died == pre.is_alive /\ ~char.is_alive
        IN  /\ char.death_count = pre.death_count + (IF died THEN 1 ELSE 0)
            /\ char.credits = IF died
                             THEN pre.credits - TruncDiv(pre.credits, 10)
                             ELSE pre.credits

\* C37: a handler of wealth_level_changed or is_derelict_changed finds the
\* service set of the location already brought in line with the new wealth
\* level or derelict flag: what it reads during update_wealth or set_derelict
\* is the service set the call leaves, never the one computed for the old value.
C37_HandlersSeeNewServices ==
    last.op \in {"update_wealth", "set_derelict"} =>
        \A i \in 1..Len(last.ev) :
            last.ev[i].type \in {"wealth_level_changed", "is_derelict_changed"} =>
                last.seen[i].services = location.services

\* C38: each entity owns its item collections: once an item record has been
\* added to two entities, an add or a remove on one of them changes the
\* quantities that one holds and never what another entity holds.
C38_OwnersApart ==
    last.op \in {"add_item", "remove_item"} =>
        \A owner \in Owners \ {last.args[1]} :
            Held(heap, owner) = Held(last.pre, owner)

\* C39: execute_ai_behavior returns no action while the NPC is dead or still
\* travelling after the position update; it proposes a travel only when the
\* behaviour's thresholds are met (trader: fuel >= 20 and hull >= 50% of max;
\* patrol: fuel >= 30; pirate: hull >= 70% of max and fuel >= 40; explorer:
\* fuel >= 50); a proposed destination is a member of the candidate list other
\* than current_location; and apart from the position update the call changes
\* none of the NPC's hull, fuel or travel fields.
C39_Thresholds ==
    LET c == npc
    IN  CASE c.ai_behavior = "trader" ->
                 c.ship_fuel >= 20 /\ 2 * c.ship_hull >= c.max_ship_hull
          [] c.ai_behavior = "patrol" -> c.ship_fuel >= 30
          [] c.ai_behavior = "pirate" ->
                 10 * c.ship_hull >= 7 * c.max_ship_hull /\ c.ship_fuel >= 40
          [] c.ai_behavior = "explorer" -> c.ship_fuel >= 50
          [] OTHER -> FALSE

C39_Frame ==
    LET arrived == /\ last.pre.destination_location # <<>>
                   /\ npc.destination_location = <<>>
    IN  /\ npc.ship_hull = last.pre.ship_hull
        /\ npc.ship_fuel = last.pre.ship_fuel
        /\ npc.max_ship_hull = last.pre.max_ship_hull
        /\ npc.max_ship_fuel = last.pre.max_ship_fuel
        /\ ~arrived =>
               /\ npc.current_location = last.pre.current_location
               /\ npc.destination_location = last.pre.destination_location
               /\ npc.travel_start_time = last.pre.travel_start_time
               /\ npc.travel_duration = last.pre.travel_duration
        /\ arrived =>
               /\ npc.current_location = last.pre.destination_location
               /\ npc.travel_start_time = <<>>
               /\ npc.travel_duration = <<>>

C39_Proposal ==
    (last.ret # <<>> /\ last.ret[1].action = "travel") =>
        /\ C39_Thresholds
        /\ \E i \in 1..Len(last.args[1]) : last.args[1][i] = last.ret[1].destination
        /\ <<last.ret[1].destination>> # npc.current_location

C39_AiProposals ==
    last.op = "execute_ai_behavior" =>
        /\ ~last.pre.is_alive => last.ret = <<>>
        /\ npc.destination_location # <<>> => last.ret = <<>>
        /\ C39_Proposal
        /\ C39_Frame

\* C40: a patrol NPC with enough fuel that always takes the travel its patrol
\* behaviour proposes over a fixed list of at least three locations keeps
\* visiting every location of the list: the rotation index never makes the
\* patrol skip a candidate location for ever.
C40_PatrolVisitsAll ==
    \A i \in 1..Len(PatrolRoute) : []<>(npc.current_location = <<PatrolRoute[i]>>)

====
